---- MODULE Spec2Model ----
(***************************************************************************)
(* The regex engine of src/script.js (lines 343-907): the recursive-descent *)
(* parser, the Thompson construction and the iterative NFA simulation that  *)
(* match(regex, input) runs one after the other.                            *)
(*                                                                          *)
(* A JavaScript string is a sequence of UTF-16 code units, modelled as a    *)
(* sequence of integers; a character (a string of one code unit) is that    *)
(* code unit.  Positions are 0-based as in the source: regex[pos] of the    *)
(* source is ctx.regex[pos + 1] here.                                       *)
(***************************************************************************)
EXTENDS Integers, Sequences, FiniteSets, TLC

\* ------------------------------------------------------------------------
\* Strings and characters
\* ------------------------------------------------------------------------

\* The UTF-16 code unit of a character, as String.prototype.charCodeAt gives
\* it.  "HI" and "LO" name the two code units 0xD83D 0xDE00 of U+1F600,
\* a character outside the basic plane.
Ch(s) ==
  CASE s = "(" -> 40  [] s = ")" -> 41  [] s = "*" -> 42  [] s = "+" -> 43
    [] s = "," -> 44  [] s = "-" -> 45  [] s = "." -> 46  [] s = "/" -> 47
    [] s = "0" -> 48  [] s = "1" -> 49
    [] s = "2" -> 50  [] s = "3" -> 51  [] s = "9" -> 57  [] s = "?" -> 63
    [] s = "[" -> 91  [] s = "]" -> 93  [] s = "^" -> 94  [] s = "a" -> 97
    [] s = "b" -> 98  [] s = "c" -> 99  [] s = "d" -> 100 [] s = "x" -> 120
    [] s = "z" -> 122 [] s = "{" -> 123 [] s = "|" -> 124 [] s = "}" -> 125
    [] s = "HI" -> 55357 [] s = "LO" -> 56832

\* The string whose characters are named by the sequence w.
Str(w) == [i \in 1..Len(w) |-> Ch(w[i])]

\* /\d/.test(qc)
IsDigit(c) == c \in 48..57

\* parseInt(s, 10) of a non-empty string of decimal digits
RECURSIVE parseInt(_)
parseInt(s) ==
  IF s = <<>> THEN 0
  ELSE 10 * parseInt(SubSeq(s, 1, Len(s) - 1)) + (s[Len(s)] - 48)

Range(s) == {s[i] : i \in 1..Len(s)}

\* A JavaScript Set is kept as the sequence of its members in insertion
\* order; SetAdd is Set.prototype.add.
SetAdd(s, x) == IF x \in Range(s) THEN s ELSE Append(s, x)

RECURSIVE SetOf(_)
SetOf(s) == IF s = <<>> THEN <<>>
            ELSE SetAdd(SetOf(SubSeq(s, 1, Len(s) - 1)), s[Len(s)])

\* ------------------------------------------------------------------------
\* Bounds of the checked instances
\* ------------------------------------------------------------------------

\* Longest pattern drawn exhaustively over an alphabet.
MaxLen == 5

\* Longest input string.
MaxInput == 3

\* Number.POSITIVE_INFINITY, above every count a checked pattern spells.
Infinity == 2147483647

\* ------------------------------------------------------------------------
\* Tokens and the parse context
\* ------------------------------------------------------------------------

TokenType == [GROUP |-> 0, BRACKET |-> 1, OR |-> 2, REPEAT |-> 3, LITERAL |-> 4]

\* The null a parse function returns when there is nothing to parse.
Null == [tokenType |-> -1, value |-> 0]

\* if (!token), for what a parse function returned
IsNull(token) == token.tokenType = Null.tokenType

\* ctx.err is the message of the Error thrown by reportError ("" while none
\* was thrown) and ctx.errPos its position.  ctx.atomAt records the positions
\* at which parseAtom was asked for an atom (it got past its null return).
createParseContext(regexString) ==
  [pos |-> 0, tokens |-> <<>>, regex |-> regexString,
   err |-> "", errPos |-> 0, atomAt |-> {}]

\* throw new Error(`Regex Parse Error: ${message} at position ${pos}...`)
reportError(message, ctx, errorPos) ==
  [ctx EXCEPT !.err = message, !.errPos = errorPos]

\* A call's outcome: the context it leaves and the value it returns.  When
\* ctx.err is set the call threw, and every caller up to match unwinds.
Ret(ctx, val) == [ctx |-> ctx, val |-> val]
Throw(ctx) == [ctx |-> ctx, val |-> Null]
Threw(r) == r.ctx.err # ""

\* ctx.regex[ctx.pos + k]
At(ctx, k) == ctx.regex[ctx.pos + k + 1]
AtEnd(ctx) == ctx.pos >= Len(ctx.regex)
Advance(ctx, k) == [ctx EXCEPT !.pos = @ + k]

\* ------------------------------------------------------------------------
\* Parser
\* ------------------------------------------------------------------------

Literal(c) == [tokenType |-> TokenType.LITERAL, value |-> c]
Bracket(cs) == [tokenType |-> TokenType.BRACKET, value |-> cs]
Group(ts) == [tokenType |-> TokenType.GROUP, value |-> ts]
Or(l, r) == [tokenType |-> TokenType.OR, value |-> <<l, r>>]
Repeat(lo, hi, t) ==
  [tokenType |-> TokenType.REPEAT, value |-> [min |-> lo, max |-> hi, token |-> t]]

\* stopChars?.includes(ctx.regex[ctx.pos]): stopChars is the set of the
\* array's members, empty for undefined.
IsStop(ctx, stopChars) == At(ctx, 0) \in stopChars

\* Each call below whose outcome is tested hands it to an operator that
\* models the statements after the call.

\* The while loop of the '[' case: the characters collected so far.
RECURSIVE charClassLoop(_, _)

\* charClassLoop taking X-] for a range.
charClassLoopNoLastHyphen(ctx, literals) ==
  IF ~(ctx.pos < Len(ctx.regex) /\ At(ctx, 0) # Ch("]"))
  THEN Ret(ctx, literals)
  ELSE IF ctx.pos + 2 < Len(ctx.regex) /\ At(ctx, 1) = Ch("-")
  THEN IF At(ctx, 0) > At(ctx, 2)
       THEN Throw(reportError("Invalid range in character class", ctx, ctx.pos))
       ELSE charClassLoop(Advance(ctx, 3),
              literals \o [i \in 1..(At(ctx, 2) - At(ctx, 0) + 1) |-> At(ctx, 0) + i - 1])
  ELSE charClassLoop(Advance(ctx, 1), Append(literals, At(ctx, 0)))

charClassLoop(ctx, literals) ==
  IF ~(ctx.pos < Len(ctx.regex) /\ At(ctx, 0) # Ch("]"))
  THEN Ret(ctx, literals)
  ELSE IF /\ ctx.pos + 2 < Len(ctx.regex)
          /\ At(ctx, 1) = Ch("-")
          /\ At(ctx, 2) # Ch("]")
  THEN IF At(ctx, 0) > At(ctx, 2)
       THEN Throw(reportError("Invalid range in character class", ctx, ctx.pos))
       ELSE charClassLoop(Advance(ctx, 3),
              literals \o [i \in 1..(At(ctx, 2) - At(ctx, 0) + 1) |-> At(ctx, 0) + i - 1])
  ELSE charClassLoop(Advance(ctx, 1), Append(literals, At(ctx, 0)))

\* The while loop of the '{' case over sMin, sMax, inMin and commaFound.
RECURSIVE quantifierLoop(_, _)
quantifierLoop(ctx, q) ==
  IF ~(ctx.pos < Len(ctx.regex) /\ At(ctx, 0) # Ch("}"))
  THEN Ret(ctx, q)
  ELSE IF At(ctx, 0) = Ch(",")
  THEN IF q.commaFound
       THEN Throw(reportError("Multiple commas in quantifier", ctx, ctx.pos))
       ELSE quantifierLoop(Advance(ctx, 1),
              [q EXCEPT !.inMin = FALSE, !.commaFound = TRUE])
  ELSE IF IsDigit(At(ctx, 0))
  THEN quantifierLoop(Advance(ctx, 1),
         IF q.inMin THEN [q EXCEPT !.sMin = Append(@, At(ctx, 0))]
                    ELSE [q EXCEPT !.sMax = Append(@, At(ctx, 0))])
  ELSE Throw(reportError("Non-digit in quantifier", ctx, ctx.pos))

\* min = sMin !== '' ? parseInt(sMin, 10) : 0
quantifierMin(q) == IF q.sMin # <<>> THEN parseInt(q.sMin) ELSE 0

\* max = commaFound ? (sMax !== '' ? parseInt(sMax, 10) : Infinity) : min
quantifierMax(q) ==
  IF q.commaFound
  THEN (IF q.sMax # <<>> THEN parseInt(q.sMax) ELSE Infinity)
  ELSE quantifierMin(q)

\* braceQuantifierToken without the test for min > max.
braceQuantifierTokenNoRangeTest(ctx, q, quantStartPos, atomToken) ==
  IF q.sMin = <<>> /\ ~q.commaFound
  THEN Throw(reportError("Empty quantifier", ctx, quantStartPos))
  ELSE IF q.sMin = <<>> /\ q.commaFound /\ q.sMax = <<>>
  THEN Throw(reportError("Empty quantifier {,}", ctx, quantStartPos))
  ELSE Ret(ctx, Repeat(quantifierMin(q), quantifierMax(q), atomToken))

\* braceQuantifierToken reading {,n} as {n}.
braceQuantifierTokenNoMinDefault(ctx, q, quantStartPos, atomToken) ==
  IF q.sMin = <<>> /\ ~q.commaFound
  THEN Throw(reportError("Empty quantifier", ctx, quantStartPos))
  ELSE IF q.sMin = <<>> /\ q.commaFound /\ q.sMax = <<>>
  THEN Throw(reportError("Empty quantifier {,}", ctx, quantStartPos))
  ELSE IF q.sMin # <<>> /\ q.sMax # <<>> /\ quantifierMin(q) > quantifierMax(q)
  THEN Throw(reportError("Invalid quantifier range: min > max", ctx, quantStartPos))
  ELSE Ret(ctx, Repeat(IF q.sMin = <<>> THEN quantifierMax(q) ELSE quantifierMin(q),
                       quantifierMax(q), atomToken))

\* The '{' case after its '}': ctx past the '}', q what the loop collected.
braceQuantifierToken(ctx, q, quantStartPos, atomToken) ==
  IF q.sMin = <<>> /\ ~q.commaFound
  THEN Throw(reportError("Empty quantifier", ctx, quantStartPos))
  ELSE IF q.sMin = <<>> /\ q.commaFound /\ q.sMax = <<>>
  THEN Throw(reportError("Empty quantifier {,}", ctx, quantStartPos))
  ELSE IF q.sMin # <<>> /\ q.sMax # <<>> /\ quantifierMin(q) > quantifierMax(q)
  THEN Throw(reportError("Invalid quantifier range: min > max", ctx, quantStartPos))
  ELSE Ret(ctx, Repeat(quantifierMin(q), quantifierMax(q), atomToken))

\* braceQuantifierEnd taking the end of the pattern for the '}'.
braceQuantifierEndNoEndTest(l, quantStartPos, atomToken) ==
  IF Threw(l) THEN Throw(l.ctx)
  ELSE braceQuantifierToken(Advance(l.ctx, 1), l.val, quantStartPos, atomToken)

\* The '{' case after its while loop, which returned or threw l.
braceQuantifierEnd(l, quantStartPos, atomToken) ==
  IF Threw(l) THEN Throw(l.ctx)
  ELSE IF l.ctx.pos >= Len(l.ctx.regex) \/ At(l.ctx, 0) # Ch("}")
  THEN Throw(reportError("Unterminated quantifier", l.ctx, quantStartPos))
  ELSE braceQuantifierToken(Advance(l.ctx, 1), l.val, quantStartPos, atomToken)

\* The '{' case of parseFactor's switch, ctx at the '{'.
braceQuantifier(ctx, atomToken) ==
  braceQuantifierEnd(
    quantifierLoop(Advance(ctx, 1),
      [sMin |-> <<>>, sMax |-> <<>>, inMin |-> TRUE, commaFound |-> FALSE]),
    ctx.pos, atomToken)

\* parseFactor's switch on the character after the atom, ctx past the atom.
quantifier(ctx, atomToken) ==
  IF ctx.pos < Len(ctx.regex)
  THEN CASE At(ctx, 0) = Ch("*") -> Ret(Advance(ctx, 1), Repeat(0, Infinity, atomToken))
         [] At(ctx, 0) = Ch("+") -> Ret(Advance(ctx, 1), Repeat(1, Infinity, atomToken))
         [] At(ctx, 0) = Ch("?") -> Ret(Advance(ctx, 1), Repeat(0, 1, atomToken))
         [] At(ctx, 0) = Ch("{") -> braceQuantifier(ctx, atomToken)
         [] OTHER -> Ret(ctx, atomToken)
  ELSE Ret(ctx, atomToken)

RECURSIVE parseExpression(_, _)
RECURSIVE parseExpressionLoop(_, _, _)
RECURSIVE parseTerm(_, _)
RECURSIVE parseTermLoop(_, _, _)
RECURSIVE parseFactor(_, _)
RECURSIVE parseAtom(_, _)

\* parseExpression after its first parseTerm, which returned or threw t.
parseExpressionAfterTerm(t, stopChars) ==
  IF Threw(t) THEN t ELSE parseExpressionLoop(t.ctx, stopChars, t.val)

\* expression -> term ('|' term)*
parseExpression(ctx, stopChars) ==
  parseExpressionAfterTerm(parseTerm(ctx, stopChars), stopChars)

\* The loop body after the right operand's parseTerm, which returned or
\* threw r.
parseExpressionOr(r, stopChars, leftNode) ==
  IF Threw(r) THEN r
  ELSE IF Len(r.val) = 0
  THEN Throw(reportError("Alternation operator | has empty right operand",
                         r.ctx, r.ctx.pos))
  ELSE parseExpressionLoop(r.ctx, stopChars, <<Or(leftNode, r.val)>>)

\* parseExpressionOr for a right operand of one factor f.
parseExpressionOrFactor(f, stopChars, leftNode) ==
  IF Threw(f) THEN f
  ELSE IF IsNull(f.val)
  THEN Throw(reportError("Alternation operator | has empty right operand",
                         f.ctx, f.ctx.pos))
  ELSE parseExpressionLoop(f.ctx, stopChars, <<Or(leftNode, <<f.val>>)>>)

\* parseExpressionRight taking one factor, not a term, as the right operand:
\* the factors after it are appended to the sequence that holds the Or.
parseExpressionRightFactor(ctx, stopChars, leftNode) ==
  IF ctx.pos >= Len(ctx.regex) \/ IsStop(ctx, stopChars) \/ At(ctx, 0) = Ch("|")
  THEN Throw(reportError("Alternation operator | missing right operand", ctx, ctx.pos))
  ELSE parseExpressionOrFactor(parseFactor(ctx, stopChars), stopChars, leftNode)

\* The loop body after ctx.pos++ has passed the '|'.
parseExpressionRight(ctx, stopChars, leftNode) ==
  IF ctx.pos >= Len(ctx.regex) \/ IsStop(ctx, stopChars) \/ At(ctx, 0) = Ch("|")
  THEN Throw(reportError("Alternation operator | missing right operand", ctx, ctx.pos))
  ELSE parseExpressionOr(parseTerm(ctx, stopChars), stopChars, leftNode)

\* parseExpressionLoop without the test for an empty left operand.
parseExpressionLoopNoLeftTest(ctx, stopChars, leftNode) ==
  IF ~(ctx.pos < Len(ctx.regex) /\ ~IsStop(ctx, stopChars))
  THEN Ret(ctx, leftNode)
  ELSE IF At(ctx, 0) = Ch("|")
  THEN parseExpressionRight(Advance(ctx, 1), stopChars, leftNode)
  ELSE Ret(ctx, leftNode)

\* The while loop of parseExpression, leftNode as built so far.
parseExpressionLoop(ctx, stopChars, leftNode) ==
  IF ~(ctx.pos < Len(ctx.regex) /\ ~IsStop(ctx, stopChars))
  THEN Ret(ctx, leftNode)
  ELSE IF At(ctx, 0) = Ch("|")
  THEN IF Len(leftNode) = 0
       THEN Throw(reportError("Alternation operator | missing left operand", ctx, ctx.pos))
       ELSE parseExpressionRight(Advance(ctx, 1), stopChars, leftNode)
  ELSE Ret(ctx, leftNode)

\* term -> factor (factor)*
parseTerm(ctx, stopChars) == parseTermLoop(ctx, stopChars, <<>>)

\* The loop body after parseFactor, which returned or threw f.
parseTermPush(f, stopChars, tokens) ==
  IF Threw(f) THEN f
  ELSE IF ~IsNull(f.val)
  THEN parseTermLoop(f.ctx, stopChars, Append(tokens, f.val))
  ELSE Ret(f.ctx, tokens)

\* The while loop of parseTerm, tokens as pushed so far.
parseTermLoop(ctx, stopChars, tokens) ==
  IF ~(ctx.pos < Len(ctx.regex) /\ ~IsStop(ctx, stopChars))
  THEN Ret(ctx, tokens)
  ELSE IF At(ctx, 0) = Ch("|")
  THEN Ret(ctx, tokens)
  ELSE parseTermPush(parseFactor(ctx, stopChars), stopChars, tokens)

\* parseFactor after parseAtom, which returned or threw a.
parseFactorAfterAtom(a) ==
  IF Threw(a) THEN a
  ELSE IF IsNull(a.val) THEN Ret(a.ctx, Null)
  ELSE quantifier(a.ctx, a.val)

\* factor -> atom (quantifier)?
parseFactor(ctx, stopChars) == parseFactorAfterAtom(parseAtom(ctx, stopChars))

\* groupEnd taking the end of the pattern for the end of the group.
groupEndNoEndTest(g, groupStartPos) ==
  IF Threw(g) THEN g
  ELSE IF g.ctx.pos >= Len(g.ctx.regex) THEN Ret(g.ctx, Group(g.val))
  ELSE Ret(Advance(g.ctx, 1), Group(g.val))

\* The '(' case after parseExpression, which returned or threw g.
groupEnd(g, groupStartPos) ==
  IF Threw(g) THEN g
  ELSE IF g.ctx.pos >= Len(g.ctx.regex) \/ At(g.ctx, 0) # Ch(")")
  THEN Throw(reportError("Unterminated group", g.ctx, groupStartPos))
  ELSE Ret(Advance(g.ctx, 1), Group(g.val))

\* The '(' case of parseAtom's switch, ctx at the '('.
groupAtom(ctx) == groupEnd(parseExpression(Advance(ctx, 1), {Ch(")")}), ctx.pos)

\* The '[' case after its while loop, which returned or threw l.
charClassEnd(l, bracketStartPos) ==
  IF Threw(l) THEN Throw(l.ctx)
  ELSE IF l.ctx.pos >= Len(l.ctx.regex) \/ At(l.ctx, 0) # Ch("]")
  THEN Throw(reportError("Unterminated character class", l.ctx, bracketStartPos))
  ELSE IF Len(l.val) = 0
  THEN Throw(reportError("Empty character class [] or [^]",
                         Advance(l.ctx, 1), bracketStartPos))
  ELSE Ret(Advance(l.ctx, 1), Bracket(SetOf(l.val)))

\* The '[' case of parseAtom's switch, ctx at the '['.
charClassAtom(ctx) == charClassEnd(charClassLoop(Advance(ctx, 1), <<>>), ctx.pos)

\* IsUnexpected with '{' left to the default case.
IsUnexpectedButBrace(char) ==
  char \in {Ch("|"), Ch(")"), Ch("*"), Ch("+"), Ch("?")}

\* The characters parseAtom's switch rejects.
IsUnexpected(char) ==
  char \in {Ch("|"), Ch(")"), Ch("*"), Ch("+"), Ch("?"), Ch("{")}

\* parseAtom's switch (char).
atomSwitch(ctx, char) ==
  CASE char = Ch("(") -> groupAtom(ctx)
    [] char = Ch("[") -> charClassAtom(ctx)
    [] IsUnexpected(char) -> Throw(reportError("Unexpected character", ctx, ctx.pos))
    [] OTHER -> Ret(Advance(ctx, 1), Literal(char))

\* atom -> LITERAL | '(' expression ')' | '[' character_set ']'
parseAtom(ctx, stopChars) ==
  IF ctx.pos >= Len(ctx.regex) \/ IsStop(ctx, stopChars)
  THEN Ret(ctx, Null)
  ELSE atomSwitch([ctx EXCEPT !.atomAt = @ \cup {ctx.pos}], At(ctx, 0))

\* parseEnd with the end-of-pattern test left out.
parseEndNoEndTest(e) ==
  IF Threw(e) THEN e.ctx ELSE [e.ctx EXCEPT !.tokens = e.val]

\* parse after parseExpression, which returned or threw e.
parseEnd(e) ==
  IF Threw(e) THEN e.ctx
  ELSE IF e.ctx.pos < Len(e.ctx.regex)
  THEN reportError("Unexpected characters at end of expression",
                   [e.ctx EXCEPT !.tokens = e.val], e.ctx.pos)
  ELSE [e.ctx EXCEPT !.tokens = e.val]

\* regex -> expression (EOF)
parse(regexStr) == parseEnd(parseExpression(createParseContext(regexStr), {}))

\* ------------------------------------------------------------------------
\* Compiler (Thompson construction)
\* ------------------------------------------------------------------------

\* The NFAState objects live in a heap, a sequence grown by each createState;
\* a reference to a state is its index, so that two states are the same
\* object exactly when they have the same index.
NoTransitions == [c \in {} |-> <<>>]

createState(isStart, isTerminal) ==
  [isStart |-> isStart, isTerminal |-> isTerminal,
   transitions |-> NoTransitions, epsilonTransitions |-> <<>>]

addEpsilonTransition(heap, fromState, toState) ==
  IF toState \in Range(heap[fromState].epsilonTransitions)
  THEN heap
  ELSE [heap EXCEPT ![fromState].epsilonTransitions = Append(@, toState)]

addTransition(heap, fromState, char, toState) ==
  LET t == heap[fromState].transitions
      t1 == IF char \notin DOMAIN t THEN t @@ (char :> <<>>) ELSE t
      t2 == IF toState \in Range(t1[char]) THEN t1
            ELSE [t1 EXCEPT ![char] = Append(@, toState)]
  IN [heap EXCEPT ![fromState].transitions = t2]

\* A fragment: the heap after building it, its entry and its exit.
Frag(heap, start, end) == [heap |-> heap, start |-> start, end |-> end]

\* token.value.forEach(char => addTransition(start, char, end))
RECURSIVE bracketTransitions(_, _, _, _)
bracketTransitions(heap, chars, start, end) ==
  IF chars = <<>> THEN heap
  ELSE bracketTransitions(addTransition(heap, start, Head(chars), end),
                          Tail(chars), start, end)

\* Consecutive addEpsilonTransition calls, one per <<from, to>> of edges.
RECURSIVE addEpsilonTransitions(_, _)
addEpsilonTransitions(heap, edges) ==
  IF edges = <<>> THEN heap
  ELSE addEpsilonTransitions(
         addEpsilonTransition(heap, Head(edges)[1], Head(edges)[2]), Tail(edges))

\* const start = createState(); const end = createState(): the new heap.
twoStates(heap) == heap \o <<createState(FALSE, FALSE), createState(FALSE, FALSE)>>

RECURSIVE tokenToNfa(_, _)
RECURSIVE tokensToNfa(_, _)
RECURSIVE tokensToNfaLoop(_, _, _, _, _)
RECURSIVE repeatRequired(_, _, _, _, _)
RECURSIVE repeatOptional(_, _, _, _, _)

\* The body of the loop over the required copies, item the copy just built.
\* (In this and the other loop bodies the test that the copy's two states
\* differ, which createState guarantees, has the copy evaluated before the
\* loop goes on.)
repeatRequiredLink(item, repeatedToken, i, min, currentChainEnd) ==
  CASE item.start # item.end ->
    repeatRequired(addEpsilonTransition(item.heap, currentChainEnd, item.start),
                   repeatedToken, i + 1, min, item.end)

\* repeatRequired building the inner fragment once and linking that one
\* fragment again for every further required copy: its exit, the
\* currentChainEnd, gets an edge to its entry, the state created before it.
repeatRequiredShared(heap, repeatedToken, i, min, currentChainEnd) ==
  IF ~(i < min) THEN Frag(heap, currentChainEnd, currentChainEnd)
  ELSE IF i = 0
  THEN repeatRequiredLink(tokenToNfa(heap, repeatedToken),
                          repeatedToken, i, min, currentChainEnd)
  ELSE repeatRequired(
         addEpsilonTransition(heap, currentChainEnd, currentChainEnd - 1),
         repeatedToken, i + 1, min, currentChainEnd)

\* for (let i = 0; i < min; i++): the heap and currentChainEnd it leaves.
repeatRequired(heap, repeatedToken, i, min, currentChainEnd) ==
  IF ~(i < min) THEN Frag(heap, currentChainEnd, currentChainEnd)
  ELSE repeatRequiredLink(tokenToNfa(heap, repeatedToken),
                          repeatedToken, i, min, currentChainEnd)

\* repeatOptionalLink without the edge that skips the copy.
repeatOptionalLinkNoSkip(item, repeatedToken, i, max, currentChainEnd) ==
  CASE item.start # item.end ->
    repeatOptional(
      addEpsilonTransitions(Append(item.heap, createState(FALSE, FALSE)),
        << <<currentChainEnd, item.start>>,
           <<item.end, Len(item.heap) + 1>> >>),
      repeatedToken, i + 1, max, Len(item.heap) + 1)

\* The body of the loop over the optional copies, item the copy just built;
\* nextChainPoint is the state created after it.
repeatOptionalLink(item, repeatedToken, i, max, currentChainEnd) ==
  CASE item.start # item.end ->
    repeatOptional(
      addEpsilonTransitions(Append(item.heap, createState(FALSE, FALSE)),
        << <<currentChainEnd, item.start>>,
           <<currentChainEnd, Len(item.heap) + 1>>,
           <<item.end, Len(item.heap) + 1>> >>),
      repeatedToken, i + 1, max, Len(item.heap) + 1)

\* for (let i = min; i < max; i++): the heap and currentChainEnd it leaves.
repeatOptional(heap, repeatedToken, i, max, currentChainEnd) ==
  IF ~(i < max) THEN Frag(heap, currentChainEnd, currentChainEnd)
  ELSE repeatOptionalLink(tokenToNfa(heap, repeatedToken),
                          repeatedToken, i, max, currentChainEnd)

\* repeatStar with the loop edge from end back to start, around the fragment
\* and not around the copy.
repeatStarLoopingOutside(item, start, end) ==
  addEpsilonTransitions(item.heap,
    << <<start, item.start>>, <<start, end>>,
       <<end, start>>, <<item.end, end>> >>)

\* X*: the edges around the one copy item.
repeatStar(item, start, end) ==
  addEpsilonTransitions(item.heap,
    << <<start, item.start>>, <<start, end>>,
       <<item.end, item.start>>, <<item.end, end>> >>)

\* X+
repeatPlus(item, start, end) ==
  addEpsilonTransitions(item.heap,
    << <<start, item.start>>, <<item.end, item.start>>, <<item.end, end>> >>)

\* X?
repeatOnce(item, start, end) ==
  addEpsilonTransitions(item.heap,
    << <<start, item.start>>, <<start, end>>, <<item.end, end>> >>)

\* X{m,}: the looping copy item after the required chain.
repeatUnbounded(item, currentChainEnd, end) ==
  addEpsilonTransitions(item.heap,
    << <<currentChainEnd, item.start>>, <<item.end, item.start>>,
       <<item.end, end>>, <<currentChainEnd, end>> >>)

\* X{m,n}: the end of the optional chain joins end.
repeatBounded(opt, end) == addEpsilonTransition(opt.heap, opt.end, end)

\* The general case after the required copies, chain.
repeatAfterRequired(chain, end, min, max, repeatedToken) ==
  IF max = Infinity
  THEN repeatUnbounded(tokenToNfa(chain.heap, repeatedToken), chain.end, end)
  ELSE repeatBounded(repeatOptional(chain.heap, repeatedToken, min, max, chain.end),
                     end)

\* The REPEAT case of tokenToNfa's switch.
repeatToNfa(h, start, end, min, max, repeatedToken) ==
  IF min = 0 /\ max = 0
  THEN addEpsilonTransition(h, start, end)
  ELSE IF min = 0 /\ max = Infinity
  THEN repeatStar(tokenToNfa(h, repeatedToken), start, end)
  ELSE IF min = 1 /\ max = Infinity
  THEN repeatPlus(tokenToNfa(h, repeatedToken), start, end)
  ELSE IF min = 0 /\ max = 1
  THEN repeatOnce(tokenToNfa(h, repeatedToken), start, end)
  ELSE repeatAfterRequired(repeatRequired(h, repeatedToken, 0, min, start),
                           end, min, max, repeatedToken)

\* orLink without the edge from start into the right operand.
orLinkLeftOnly(left, right, start, end) ==
  addEpsilonTransitions(right.heap,
    << <<start, left.start>>, <<left.end, end>>, <<right.end, end>> >>)

\* The OR case once both operands are built.
orLink(left, right, start, end) ==
  addEpsilonTransitions(right.heap,
    << <<start, left.start>>, <<start, right.start>>,
       <<left.end, end>>, <<right.end, end>> >>)

\* The OR case after its left operand is built.
orRight(left, rightTokens, start, end) ==
  orLink(left, tokensToNfa(left.heap, rightTokens), start, end)

\* The GROUP case once the group's content is built.
groupLink(group, start, end) ==
  addEpsilonTransitions(group.heap,
    << <<start, group.start>>, <<group.end, end>> >>)

\* tokenToNfa's switch, h holding the new states start and end.
tokenSwitch(h, start, end, token) ==
  CASE token.tokenType = TokenType.LITERAL ->
         addTransition(h, start, token.value, end)
    [] token.tokenType = TokenType.OR ->
         orRight(tokensToNfa(h, token.value[1]), token.value[2], start, end)
    [] token.tokenType = TokenType.BRACKET ->
         bracketTransitions(h, token.value, start, end)
    [] token.tokenType = TokenType.GROUP ->
         IF Len(token.value) = 0
         THEN addEpsilonTransition(h, start, end)
         ELSE groupLink(tokensToNfa(h, token.value), start, end)
    [] token.tokenType = TokenType.REPEAT ->
         repeatToNfa(h, start, end, token.value.min, token.value.max,
                     token.value.token)

\* Convert a single token into an NFA fragment [start, end].
tokenToNfa(heap, token) ==
  Frag(tokenSwitch(twoStates(heap), Len(heap) + 1, Len(heap) + 2, token),
       Len(heap) + 1, Len(heap) + 2)

\* The loop body after tokenToNfa built next.
tokensToNfaLink(next, tokens, i, currentNfaStart, currentNfaEnd) ==
  CASE next.start # next.end ->
    tokensToNfaLoop(addEpsilonTransition(next.heap, currentNfaEnd, next.start),
                    tokens, i + 1, currentNfaStart, next.end)

\* for (let i = 1; i < tokens.length; i++), i counted from 2 here.
tokensToNfaLoop(heap, tokens, i, currentNfaStart, currentNfaEnd) ==
  IF ~(i <= Len(tokens)) THEN Frag(heap, currentNfaStart, currentNfaEnd)
  ELSE tokensToNfaLink(tokenToNfa(heap, tokens[i]), tokens, i,
                       currentNfaStart, currentNfaEnd)

\* tokensToNfa after the first token's fragment.
tokensToNfaFirst(first, tokens) ==
  tokensToNfaLoop(first.heap, tokens, 2, first.start, first.end)

tokensToNfa(heap, tokens) ==
  IF Len(tokens) = 0
  THEN Frag(addEpsilonTransition(twoStates(heap), Len(heap) + 1, Len(heap) + 2),
            Len(heap) + 1, Len(heap) + 2)
  ELSE tokensToNfaFirst(tokenToNfa(heap, tokens[1]), tokens)

\* nfaStart.isStart = true; nfaEnd.isTerminal = true
markEnds(nfa) ==
  [heap |-> [nfa.heap EXCEPT ![nfa.start].isStart = TRUE,
                             ![nfa.end].isTerminal = TRUE],
   nfaStart |-> nfa.start]

\* The heap of the NFA of ctx.tokens and its start state.
buildNfa(ctx) == markEnds(tokensToNfa(<<>>, ctx.tokens))

\* ------------------------------------------------------------------------
\* Simulator
\* ------------------------------------------------------------------------

\* for (const nextState of s.epsilonTransitions): closure and stack after it.
RECURSIVE closureVisit(_, _, _)
closureVisit(closure, stack, nextStates) ==
  IF nextStates = <<>> THEN [closure |-> closure, stack |-> stack]
  ELSE IF Head(nextStates) \notin Range(closure)
  THEN closureVisit(Append(closure, Head(nextStates)),
                    Append(stack, Head(nextStates)), Tail(nextStates))
  ELSE closureVisit(closure, stack, Tail(nextStates))

\* while (stack.length > 0): s = stack.pop(), v holding closure and stack
RECURSIVE closureLoop(_, _)
closureLoop(heap, v) ==
  IF ~(Len(v.stack) > 0) THEN v.closure
  ELSE closureLoop(heap,
         closureVisit(v.closure, SubSeq(v.stack, 1, Len(v.stack) - 1),
                      heap[v.stack[Len(v.stack)]].epsilonTransitions))

epsilonClosure(heap, states) ==
  closureLoop(heap, [closure |-> states, stack |-> states])

\* The elements a for...of loop over a string yields: one per code point, a
\* high surrogate followed by a low surrogate being one element of two code
\* units.  An element is named by its code point, which for two code units is
\* above every code unit.
RECURSIVE StringIterator(_)
StringIterator(s) ==
  IF s = <<>> THEN <<>>
  ELSE IF /\ Len(s) >= 2
          /\ s[1] \in 55296..56319
          /\ s[2] \in 56320..57343
  THEN <<65536 + (s[1] - 55296) * 1024 + (s[2] - 56320)>>
         \o StringIterator(SubSeq(s, 3, Len(s)))
  ELSE <<s[1]>> \o StringIterator(Tail(s))

\* for (const state of currentStates) of one step: nextPossibleStates.
RECURSIVE nextPossible(_, _, _, _)
nextPossible(heap, states, char, nextPossibleStates) ==
  IF states = <<>> THEN nextPossibleStates
  ELSE nextPossible(heap, Tail(states), char,
         IF char \in DOMAIN heap[Head(states)].transitions
         THEN SetOf(nextPossibleStates \o heap[Head(states)].transitions[char])
         ELSE nextPossibleStates)

\* for (const state of currentStates) if (state.isTerminal) return true
anyTerminal(heap, states) == \E i \in 1..Len(states) : heap[states[i]].isTerminal

\* The end of one iteration: return false or the closure.
stepClosure(heap, nextPossibleStates) ==
  IF Len(nextPossibleStates) = 0 THEN <<>>
  ELSE epsilonClosure(heap, nextPossibleStates)

\* One iteration of for (const element of input): the next currentStates,
\* empty when the loop returns false.
simulateStep(heap, currentStates, char) ==
  stepClosure(heap, nextPossible(heap, currentStates, char, <<>>))

RECURSIVE simulateLoop(_, _, _, _)

\* The loop after one iteration left next.
simulateNext(heap, next, elements, i) ==
  IF Len(next) = 0 THEN FALSE ELSE simulateLoop(heap, next, elements, i + 1)

\* for (const element of input) from the i-th element on, and the final test.
simulateLoop(heap, currentStates, elements, i) ==
  IF i > Len(elements) THEN anyTerminal(heap, currentStates)
  ELSE simulateNext(heap, simulateStep(heap, currentStates, elements[i]),
                    elements, i)

simulateNfaIterative(heap, startState, inputStr) ==
  simulateLoop(heap, epsilonClosure(heap, <<startState>>),
               StringIterator(inputStr), 1)

\* match after buildNfa.
matchSimulate(nfa, inputStr) ==
  simulateNfaIterative(nfa.heap, nfa.nfaStart, inputStr)

\* match after parse: the catch returns false.
matchBuild(ctx, inputStr) ==
  IF ctx.err # "" THEN FALSE ELSE matchSimulate(buildNfa(ctx), inputStr)

\* match as a function of its arguments
match(regexStr, inputStr) == matchBuild(parse(regexStr), inputStr)

\* ------------------------------------------------------------------------
\* match(regex, input) as a state machine
\* ------------------------------------------------------------------------

VARIABLES
  regex,          \* the pattern given to match
  input,          \* the input given to match
  pc,             \* where match is: "parse", "buildNfa", "simulate", "loop", "done"
  parseContext,   \* what parse returned, or the context it threw from
  heap,           \* the NFAState objects created so far
  nfaStartState,  \* what buildNfa returned (0 before)
  currentStates,  \* simulateNfaIterative's currentStates
  consumed,       \* how many elements of the input its loop has taken
  result,         \* what match returned, once pc = "done"
  calls,          \* how many earlier calls of simulateNfaIterative ran on the NFA
  states,         \* the argument of the epsilonClosure call under way
  closure,        \* its closure
  stack,          \* its stack
  pushes          \* every state it has put on the stack, in order

vars == <<regex, input, pc, parseContext, heap, nfaStartState, currentStates,
          consumed, result, calls, states, closure, stack, pushes>>

InitWith(patterns, inputs) ==
  /\ regex \in patterns
  /\ input \in inputs
  /\ pc = "parse"
  /\ parseContext = createParseContext(<<>>)
  /\ heap = <<>>
  /\ nfaStartState = 0
  /\ currentStates = <<>>
  /\ consumed = 0
  /\ result = FALSE
  /\ calls = 0
  /\ states = <<>>
  /\ closure = <<>>
  /\ stack = <<>>
  /\ pushes = <<>>

\* const parseContext = parse(regex), returning normally
MatchParse ==
  /\ pc = "parse"
  /\ LET ctx == parse(regex) IN
       /\ ctx.err = ""
       /\ parseContext' = ctx
  /\ pc' = "buildNfa"
  /\ UNCHANGED <<regex, input, heap, nfaStartState, currentStates, consumed, result>>
  /\ UNCHANGED <<calls, states, closure, stack, pushes>>

\* MatchCatch going on with the context parse threw from.
MatchWithoutCatch ==
  /\ pc = "parse"
  /\ LET ctx == parse(regex) IN
       /\ ctx.err # ""
       /\ parseContext' = ctx
  /\ pc' = "buildNfa"
  /\ UNCHANGED <<regex, input, heap, nfaStartState, currentStates, consumed, result>>
  /\ UNCHANGED <<calls, states, closure, stack, pushes>>

\* parse threw: catch (e) { console.error(e.message); return false }
MatchCatch ==
  /\ pc = "parse"
  /\ LET ctx == parse(regex) IN
       /\ ctx.err # ""
       /\ parseContext' = ctx
  /\ pc' = "done"
  /\ result' = FALSE
  /\ UNCHANGED <<regex, input, heap, nfaStartState, currentStates, consumed>>
  /\ UNCHANGED <<calls, states, closure, stack, pushes>>

\* const nfaStartState = buildNfa(parseContext)
MatchBuildNfa ==
  /\ pc = "buildNfa"
  /\ LET nfa == buildNfa(parseContext) IN
       /\ heap' = nfa.heap
       /\ nfaStartState' = nfa.nfaStart
  /\ pc' = "simulate"
  /\ UNCHANGED <<regex, input, parseContext, currentStates, consumed, result>>
  /\ UNCHANGED <<calls, states, closure, stack, pushes>>

\* SimulateStart keeping the closure it computed in the start state's
\* epsilonTransitions.
SimulateStartCaching ==
  /\ pc = "simulate"
  /\ currentStates' = epsilonClosure(heap, <<nfaStartState>>)
  /\ heap' = [heap EXCEPT ![nfaStartState].epsilonTransitions =
                            epsilonClosure(heap, <<nfaStartState>>)]
  /\ pc' = "loop"
  /\ UNCHANGED <<regex, input, parseContext, nfaStartState, consumed, result>>
  /\ UNCHANGED <<calls, states, closure, stack, pushes>>

\* let currentStates = epsilonClosure(new Set([startState]))
SimulateStart ==
  /\ pc = "simulate"
  /\ currentStates' = epsilonClosure(heap, <<nfaStartState>>)
  /\ pc' = "loop"
  /\ UNCHANGED <<regex, input, parseContext, heap, nfaStartState, consumed, result>>
  /\ UNCHANGED <<calls, states, closure, stack, pushes>>

\* One iteration of for (const element of input)
SimulateStep ==
  /\ pc = "loop"
  /\ consumed < Len(StringIterator(input))
  /\ LET next == simulateStep(heap, currentStates,
                               StringIterator(input)[consumed + 1])
     IN IF Len(next) = 0
        THEN /\ result' = FALSE
             /\ pc' = "done"
             /\ UNCHANGED currentStates
        ELSE /\ currentStates' = next
             /\ UNCHANGED <<pc, result>>
  /\ consumed' = consumed + 1
  /\ UNCHANGED <<regex, input, parseContext, heap, nfaStartState>>
  /\ UNCHANGED <<calls, states, closure, stack, pushes>>

\* The input is used up: return whether a current state is terminal
SimulateReturn ==
  /\ pc = "loop"
  /\ consumed = Len(StringIterator(input))
  /\ result' = anyTerminal(heap, currentStates)
  /\ pc' = "done"
  /\ UNCHANGED <<regex, input, parseContext, heap, nfaStartState, currentStates,
                 consumed>>
  /\ UNCHANGED <<calls, states, closure, stack, pushes>>

Next ==
  \/ MatchParse
  \/ MatchCatch
  \/ MatchBuildNfa
  \/ SimulateStart
  \/ SimulateStep
  \/ SimulateReturn

\* ------------------------------------------------------------------------
\* Specifications: match on every pattern and input of a bounded set
\* ------------------------------------------------------------------------

\* Every string over an alphabet up to a length.
Strings(alphabet, n) == UNION {[1..k -> alphabet] : k \in 0..n}

Chars(names) == {Ch(s) : s \in names}

\* Inputs of the specifications that are about the parser.
FewInputs == {Str(<<>>), Str(<<"a", "b">>)}

\* Groups, alternation and a quantifier.
CoreAlphabet == Chars({"a", "b", "(", ")", "|", "*"})

\* The patterns of the specification's examples of precedence.
PrecedenceExamples ==
  {Str(<<"a", "b", "*">>), Str(<<"a", "|", "b", "c">>),
   Str(<<"a", "|", "b", "|", "c">>)}

CorePatterns == Strings(CoreAlphabet, MaxLen) \cup PrecedenceExamples

Init == InitWith(CorePatterns, FewInputs)

Spec == Init /\ [][Next]_vars

\* ------------------------------------------------------------------------
\* Reading a pattern as text
\* ------------------------------------------------------------------------

LP == Ch("(")
RP == Ch(")")
BAR == Ch("|")

\* parse has returned or thrown
Parsed == pc # "parse"
ParsedOk == pc # "parse" /\ parseContext.err = ""

\* How many '(' of s[1..i-1] are still open before s[i], in a pattern
\* without character classes.
RECURSIVE Depth(_, _)
Depth(s, i) ==
  IF i <= 1 THEN 0
  ELSE LET d == Depth(s, i - 1) IN
       IF s[i - 1] = LP THEN d + 1
       ELSE IF s[i - 1] = RP /\ d > 0 THEN d - 1
       ELSE d

\* The index of the ')' that closes the group whose body starts at s[i],
\* depth groups being open there; 0 when there is none.
RECURSIVE ClosingParen(_, _, _)
ClosingParen(s, i, depth) ==
  IF i > Len(s) THEN 0
  ELSE IF s[i] = RP
  THEN IF depth = 1 THEN i ELSE ClosingParen(s, i + 1, depth - 1)
  ELSE IF s[i] = LP THEN ClosingParen(s, i + 1, depth + 1)
  ELSE ClosingParen(s, i + 1, depth)

AltErrors ==
  {"Alternation operator | missing left operand",
   "Alternation operator | missing right operand",
   "Alternation operator | has empty right operand"}

\* ------------------------------------------------------------------------
\* C2
\* ------------------------------------------------------------------------

\* C2: when parse throws on the pattern, match returns false whatever the
\* input is, and it has built no NFA state and run no step of the simulation.
ParseErrorGivesFalse ==
  parse(regex).err # "" =>
    /\ pc \in {"parse", "done"}
    /\ pc = "done" => result = FALSE
    /\ heap = <<>>
    /\ nfaStartState = 0
    /\ currentStates = <<>>
    /\ consumed = 0

\* match has returned on a pattern that does not parse and a non-empty input
ParseErrorWitness ==
  pc = "done" /\ parseContext.err # "" /\ Len(input) > 0

\* ------------------------------------------------------------------------
\* C3
\* ------------------------------------------------------------------------

\* The indices of the '|' of s that are in no group.
TopBars(s) == {i \in 1..Len(s) : s[i] = BAR /\ Depth(s, i) = 0}

SetMax(S) == CHOOSE x \in S : \A y \in S : y <= x

\* The AST the precedence rules give a well-formed pattern of literals,
\* groups, '|' and '*': the last '|' outside every group splits the
\* expression, a term is its factors in order, a factor is an atom and the
\* '*' that directly follows it.
RECURSIVE PrecedenceExpr(_)
RECURSIVE PrecedenceTerm(_)
PrecedenceExpr(s) ==
  IF TopBars(s) = {} THEN PrecedenceTerm(s)
  ELSE LET k == SetMax(TopBars(s))
       IN <<Or(PrecedenceExpr(SubSeq(s, 1, k - 1)),
               PrecedenceTerm(SubSeq(s, k + 1, Len(s))))>>

PrecedenceTerm(s) ==
  IF s = <<>> THEN <<>>
  ELSE LET atomEnd == IF s[1] = LP THEN ClosingParen(s, 2, 1) ELSE 1
           atom == IF s[1] = LP
                   THEN Group(PrecedenceExpr(SubSeq(s, 2, atomEnd - 1)))
                   ELSE Literal(s[1])
           starred == atomEnd < Len(s) /\ s[atomEnd + 1] = Ch("*")
           factorEnd == IF starred THEN atomEnd + 1 ELSE atomEnd
       IN <<IF starred THEN Repeat(0, Infinity, atom) ELSE atom>>
            \o PrecedenceTerm(SubSeq(s, factorEnd + 1, Len(s)))

\* C3: the AST of a pattern that parses is the one the precedence atom >
\* quantifier > concatenation > alternation gives it, alternations nesting to
\* the left; in particular for ab*, a|bc and a|b|c.
ParseRespectsPrecedence ==
  Parsed =>
    /\ parseContext.err = "" => parseContext.tokens = PrecedenceExpr(regex)
    /\ regex = Str(<<"a", "b", "*">>) =>
         /\ parseContext.err = ""
         /\ parseContext.tokens =
              <<Literal(Ch("a")), Repeat(0, Infinity, Literal(Ch("b")))>>
    /\ regex = Str(<<"a", "|", "b", "c">>) =>
         /\ parseContext.err = ""
         /\ parseContext.tokens =
              <<Or(<<Literal(Ch("a"))>>, <<Literal(Ch("b")), Literal(Ch("c"))>>)>>
    /\ regex = Str(<<"a", "|", "b", "|", "c">>) =>
         /\ parseContext.err = ""
         /\ parseContext.tokens =
              <<Or(<<Or(<<Literal(Ch("a"))>>, <<Literal(Ch("b"))>>)>>,
                   <<Literal(Ch("c"))>>)>>

\* a|b|c has been parsed
PrecedenceWitness ==
  /\ ParsedOk
  /\ regex = Str(<<"a", "|", "b", "|", "c">>)
  /\ parseContext.tokens[1].tokenType = TokenType.OR

\* ------------------------------------------------------------------------
\* C7
\* ------------------------------------------------------------------------

\* The '|' at s[i] has an empty operand: it starts the pattern or a group, or
\* follows a '|'; or it ends the pattern, or a '|' follows it, or the ')' of
\* the group it is in does.
EmptyOperandAt(s, i) ==
  /\ s[i] = BAR
  /\ \/ i = 1
     \/ s[i - 1] \in {LP, BAR}
     \/ i = Len(s)
     \/ s[i + 1] = BAR
     \/ s[i + 1] = RP /\ Depth(s, i) > 0

\* C7: when the first '|' with an empty operand is at index i, parse throws
\* the empty-operand error of alternation, unless it threw on a character
\* that stands before that '|'.
EmptyOperandRejected ==
  Parsed =>
    \A i \in 1..Len(regex) :
      (EmptyOperandAt(regex, i) /\ \A j \in 1..(i - 1) : ~EmptyOperandAt(regex, j))
        => \/ parseContext.err \in AltErrors
           \/ parseContext.err # "" /\ parseContext.errPos < i - 1

\* (a|) has been rejected for the empty right operand in the group
EmptyOperandWitness ==
  /\ Parsed
  /\ regex = Str(<<"(", "a", "|", ")">>)
  /\ parseContext.err = "Alternation operator | missing right operand"
  /\ parseContext.errPos = 3

\* ------------------------------------------------------------------------
\* C9
\* ------------------------------------------------------------------------

\* How many '(' of s no ')' closes.
Unclosed(s) == Depth(s, Len(s) + 1)

\* The index of the last '(' of s that no ')' closes.
LastUnclosed(s) ==
  SetMax({i \in 1..Len(s) : s[i] = LP /\ ClosingParen(s, i + 1, 1) = 0})

\* s with the k missing ')' appended
Closed(s, k) == s \o [i \in 1..k |-> RP]

\* C9 as stated: a pattern that opens with a '(' and leaves a '(' unclosed
\* is rejected with the unterminated-group error, whatever follows.
UnclosedGroupIsUnterminated ==
  (pc = "done" /\ Len(regex) > 0 /\ regex[1] = LP /\ Unclosed(regex) > 0)
    => parseContext.err = "Unterminated group"

\* C9, amended: a pattern that leaves a '(' unclosed is rejected; the error is
\* the unterminated-group error, at the innermost unclosed '(', exactly when
\* the pattern parses once the missing ')' are appended, and another error
\* otherwise.
UnclosedGroupRejected ==
  (pc = "done" /\ Unclosed(regex) > 0) =>
    /\ parseContext.err # ""
    /\ parseContext.err = "Unterminated group"
         <=> parse(Closed(regex, Unclosed(regex))).err = ""
    /\ parseContext.err = "Unterminated group"
         => parseContext.errPos = LastUnclosed(regex) - 1

\* ((a has been rejected as unterminated at its inner '('
UnclosedGroupWitness ==
  /\ pc = "done"
  /\ regex = Str(<<"(", "(", "a">>)
  /\ parseContext.err = "Unterminated group"
  /\ parseContext.errPos = 1

\* ------------------------------------------------------------------------
\* C8
\* ------------------------------------------------------------------------

\* Longest pattern drawn exhaustively over the alphabet of all quantifiers.
MaxWide == 4

\* Longest tail drawn after a brace quantifier.
MaxTail == 2

WideAlphabet == Chars({"a", "(", ")", "|", "*", "+", "?", "{"})

\* Atoms with a well-formed brace quantifier.
BraceQuantified ==
  {Str(<<"a", "{", "2", "}">>), Str(<<"a", "{", "2", ",", "}">>),
   Str(<<"(", "a", ")", "{", ",", "2", "}">>)}

WidePatterns ==
  Strings(WideAlphabet, MaxWide)
    \cup {q \o t : q \in BraceQuantified, t \in Strings(WideAlphabet, MaxTail)}

InitWide == InitWith(WidePatterns, FewInputs)

SpecWide == InitWide /\ [][Next]_vars

QuantifierChars == Chars({"*", "+", "?", "{"})

\* s[i] is inside the braces of a quantifier that is still open
InBraces(s, i) ==
  \E j \in 1..(i - 1) :
    s[j] = Ch("{") /\ \A k \in (j + 1)..(i - 1) : s[k] # Ch("}")

\* s[i] is the last character of a quantifier: '*', '+', '?' or the '}' of
\* a brace quantifier
EndsQuantifier(s, i) ==
  \/ s[i] \in Chars({"*", "+", "?"})
  \/ /\ s[i] = Ch("}")
     /\ \E j \in 2..(i - 1) :
          /\ s[j] = Ch("{")
          /\ \A k \in (j + 1)..(i - 1) : IsDigit(s[k]) \/ s[k] = Ch(",")

\* s[i] is a quantifier with no atom before it (at the start, after '(' or
\* after '|'), a quantifier after a quantifier, or a ')' outside every group.
MisplacedAt(s, i) ==
  \/ s[i] \in QuantifierChars /\ (i = 1 \/ s[i - 1] \in {LP, BAR})
  \/ s[i] \in QuantifierChars /\ i > 1 /\ EndsQuantifier(s, i - 1)
  \/ s[i] = RP /\ Depth(s, i) = 0 /\ ~InBraces(s, i)

\* C8: a ')', '*', '+', '?' or '{' at a position where parseAtom is asked
\* for an atom makes parse throw the unexpected-character error at that
\* position; and the first misplaced quantifier or ')' of a pattern is such a
\* position, unless parse threw on a character that stands before it.
MisplacedCharRejected ==
  Parsed =>
    /\ \A q \in parseContext.atomAt :
         regex[q + 1] \in QuantifierChars \cup {RP}
           => /\ parseContext.err = "Unexpected character"
              /\ parseContext.errPos = q
    /\ \A i \in 1..Len(regex) :
         (MisplacedAt(regex, i) /\ \A j \in 1..(i - 1) : ~MisplacedAt(regex, j))
           => /\ parseContext.err # ""
              /\ \/ parseContext.errPos < i - 1
                 \/ /\ parseContext.err = "Unexpected character"
                    /\ parseContext.errPos = i - 1

\* a{2}* has been rejected at its second quantifier
MisplacedCharWitness ==
  /\ Parsed
  /\ regex = Str(<<"a", "{", "2", "}", "*">>)
  /\ parseContext.err = "Unexpected character"
  /\ parseContext.errPos = 4
  /\ 4 \in parseContext.atomAt

\* ------------------------------------------------------------------------
\* C4, C5
\* ------------------------------------------------------------------------

\* Longest text drawn after the '{' of a quantifier.
MaxBrace == 4

\* Longest run of digits in it.
MaxDigits == 1

BraceAlphabet == Chars({"0", "1", ",", "}", "x"})

\* w has no run of more than n digits
ShortNumbers(w, n) ==
  \A k \in 1..(Len(w) - n) : \E j \in k..(k + n) : ~IsDigit(w[j])

\* One atom of each kind and the empty group, with the token parseAtom
\* returns for it.
QuantAtoms ==
  {[text |-> Str(<<"a">>), token |-> Literal(Ch("a"))],
   [text |-> Str(<<"(", "a", ")">>), token |-> Group(<<Literal(Ch("a"))>>)],
   [text |-> Str(<<"[", "a", "b", "]">>), token |-> Bracket(<<Ch("a"), Ch("b")>>)],
   [text |-> Str(<<"(", ")">>), token |-> Group(<<>>)]}

\* Brace quantifiers of each form whose numbers have two digits.
TwoDigitTexts ==
  {Str(<<"{", "1", "0", "}">>), Str(<<"{", "1", "0", ",", "}">>),
   Str(<<"{", ",", "1", "0", "}">>), Str(<<"{", "0", "1", ",", "1", "0", "}">>),
   Str(<<"{", "1", "0", ",", "1", "1", "}">>),
   Str(<<"{", "1", "1", ",", "1", "0", "}">>),
   Str(<<"{", "1", "0", ",", "0", "9", "}">>)}

\* What follows the atom: nothing, a literal, a one-character quantifier, or
\* a '{' and any text.
QuantTexts ==
  {Str(<<>>), Str(<<"x">>), Str(<<"*">>), Str(<<"+">>), Str(<<"?">>)}
    \cup TwoDigitTexts
    \cup {<<Ch("{")>> \o w : w \in {v \in Strings(BraceAlphabet, MaxBrace) :
                                       ShortNumbers(v, MaxDigits)}}

QuantPatterns == {at.text \o q : at \in QuantAtoms, q \in QuantTexts}

InitQuant == InitWith(QuantPatterns, FewInputs)

SpecQuant == InitQuant /\ [][Next]_vars

IsPrefix(p, s) == Len(p) <= Len(s) /\ SubSeq(s, 1, Len(p)) = p

SetMin(S) == CHOOSE x \in S : \A y \in S : x <= y

\* The index of the first '}' after the '{' at s[i], Len(s) + 1 when none.
BraceClose(s, i) == SetMin({k \in (i + 1)..Len(s) : s[k] = Ch("}")} \cup {Len(s) + 1})

\* The index of the comma between the braces, that of the '}' when none.
BraceComma(s, i) ==
  SetMin({k \in (i + 1)..(BraceClose(s, i) - 1) : s[k] = Ch(",")}
           \cup {BraceClose(s, i)})

\* The digits before the comma (or the '}') and those after the comma.
BraceLow(s, i) == SubSeq(s, i + 1, BraceComma(s, i) - 1)
BraceHigh(s, i) == SubSeq(s, BraceComma(s, i) + 1, BraceClose(s, i) - 1)
BraceHasComma(s, i) == BraceComma(s, i) < BraceClose(s, i)

\* The number a sequence of decimal digits writes.
RECURSIVE DecimalValue(_)
DecimalValue(w) ==
  IF w = <<>> THEN 0
  ELSE (w[1] - 48) * 10 ^ (Len(w) - 1) + DecimalValue(Tail(w))

\* The indices between the braces of a character that is neither a digit nor
\* the first comma.
BraceBad(s, i) ==
  {k \in (i + 1)..(BraceClose(s, i) - 1) :
     ~IsDigit(s[k]) /\ (s[k] # Ch(",") \/ k > BraceComma(s, i))}

\* The defect of the brace quantifier that opens at s[i], "" when it is well
\* formed: the first character that may not stand between the braces, or no
\* '}', or no number, or min > max.
BraceError(s, i) ==
  IF BraceBad(s, i) # {}
  THEN (IF s[SetMin(BraceBad(s, i))] = Ch(",")
        THEN "Multiple commas in quantifier" ELSE "Non-digit in quantifier")
  ELSE IF BraceClose(s, i) > Len(s) THEN "Unterminated quantifier"
  ELSE IF BraceLow(s, i) = <<>> /\ ~BraceHasComma(s, i) THEN "Empty quantifier"
  ELSE IF BraceLow(s, i) = <<>> /\ BraceHigh(s, i) = <<>> THEN "Empty quantifier {,}"
  ELSE IF /\ BraceLow(s, i) # <<>>
          /\ BraceHigh(s, i) # <<>>
          /\ DecimalValue(BraceLow(s, i)) > DecimalValue(BraceHigh(s, i))
  THEN "Invalid quantifier range: min > max"
  ELSE ""

\* min and max of the well-formed brace quantifier that opens at s[i]:
\* {m} (m, m), {m,} (m, Infinity), {m,n} (m, n), {,n} (0, n).
BraceMin(s, i) ==
  IF BraceLow(s, i) = <<>> THEN 0 ELSE DecimalValue(BraceLow(s, i))

BraceMax(s, i) ==
  IF ~BraceHasComma(s, i) THEN DecimalValue(BraceLow(s, i))
  ELSE IF BraceHigh(s, i) = <<>> THEN Infinity
  ELSE DecimalValue(BraceHigh(s, i))

\* s[i] is c
Holds(s, i, c) == i <= Len(s) /\ s[i] = Ch(c)

QuantifierOpenWitness ==
  /\ Parsed
  /\ regex = Str(<<"[", "a", "b", "]", "{", "1", ",", "}">>)
  /\ parseContext.tokens = <<Repeat(1, Infinity, Bracket(<<Ch("a"), Ch("b")>>))>>

MaxClass == 5

\* Characters whose codes are close to that of '-', so that every range
\* between them is short.
ClassAlphabet == Chars({",", "-", "0", "]"})

ClassPatterns == {<<Ch("[")>> \o w : w \in Strings(ClassAlphabet, MaxClass)}

InitClass == InitWith(ClassPatterns, FewInputs)

SpecClass == InitClass /\ [][Next]_vars

\* The index of the first ']' after the '[' at s[1], Len(s) + 1 when none.
ClassClose(s) == SetMin({k \in 2..Len(s) : s[k] = Ch("]")} \cup {Len(s) + 1})

\* What stands between the '[' and that ']'.
ClassBody(s) == SubSeq(s, 2, ClassClose(s) - 1)

\* The characters the body w of a class contributes, read left to right: a
\* three-character form X-Y every character from X to Y, any other character
\* itself.
RECURSIVE ClassChars(_)
ClassChars(w) ==
  IF w = <<>> THEN {}
  ELSE IF Len(w) >= 3 /\ w[2] = Ch("-")
  THEN (w[1]..w[3]) \cup ClassChars(SubSeq(w, 4, Len(w)))
  ELSE {w[1]} \cup ClassChars(Tail(w))

\* Some three-character form X-Y of the body w has code(X) > code(Y).
RECURSIVE ClassBadRange(_)
ClassBadRange(w) ==
  IF w = <<>> THEN FALSE
  ELSE IF Len(w) >= 3 /\ w[2] = Ch("-")
  THEN w[1] > w[3] \/ ClassBadRange(SubSeq(w, 4, Len(w)))
  ELSE ClassBadRange(Tail(w))

\* C6: the Bracket of a character class holds exactly the characters its
\* ranges X-Y and its single characters contribute, each once, a '-' that is
\* first or last being a single character; the class is rejected exactly when
\* a range has code(X) > code(Y), when it is empty, or when no ']' closes it.
ClassIsUnionOfItems ==
  (Parsed /\ Holds(regex, 1, "[")) =>
    /\ parseContext.err = ""
         <=> /\ ~ClassBadRange(ClassBody(regex))
             /\ ClassBody(regex) # <<>>
             /\ ClassClose(regex) <= Len(regex)
    /\ ClassBadRange(ClassBody(regex))
         => parseContext.err = "Invalid range in character class"
    /\ (~ClassBadRange(ClassBody(regex)) /\ ClassClose(regex) > Len(regex))
         => /\ parseContext.err = "Unterminated character class"
            /\ parseContext.errPos = 0
    /\ (ClassBody(regex) = <<>> /\ ClassClose(regex) <= Len(regex))
         => parseContext.err = "Empty character class [] or [^]"
    /\ parseContext.err = ""
         => /\ parseContext.tokens[1].tokenType = TokenType.BRACKET
            /\ Range(parseContext.tokens[1].value) = ClassChars(ClassBody(regex))
            /\ Cardinality(ClassChars(ClassBody(regex)))
                 = Len(parseContext.tokens[1].value)

\* [,-0-] has been parsed into the class of the five characters from ','
\* to '0', the '-' before the ']' being one of them already
ClassWitness ==
  /\ Parsed
  /\ regex = Str(<<"[", ",", "-", "0", "-", "]">>)
  /\ parseContext.tokens =
       <<Bracket(<<Ch(","), Ch("-"), Ch("."), Ch("/"), Ch("0")>>)>>

\* ------------------------------------------------------------------------
\* C10
\* ------------------------------------------------------------------------

\* Most pieces of text a pattern is put together from.
MaxNest == 4

\* p, and p followed by each member of lexemes.
Extend(shorter, lexemes) == shorter \cup {p \o l : p \in shorter, l \in lexemes}

\* Every concatenation of up to n members of a set of strings.
RECURSIVE Concatenations(_, _)
Concatenations(lexemes, n) ==
  IF n = 0 THEN {<<>>} ELSE Extend(Concatenations(lexemes, n - 1), lexemes)

\* A literal, the delimiters of a group, the alternation operator, a class,
\* the empty class, a quantifier with min < max and one with min > max.
NestLexemes ==
  {Str(<<"a">>), Str(<<"(">>), Str(<<")">>), Str(<<"|">>),
   Str(<<"[", "a", "]">>), Str(<<"[", "]">>),
   Str(<<"{", "1", ",", "2", "}">>), Str(<<"{", "2", ",", "1", "}">>)}

\* Each pattern of a set as it is and two groups deep under a quantifier.
NestPatterns(plain) ==
  plain \cup {Str(<<"(", "(">>) \o p \o Str(<<")", ")", "*">>) : p \in plain}

OneInput == {Str(<<"a">>)}

InitNest ==
  InitWith(NestPatterns(Concatenations(NestLexemes, MaxNest)), OneInput)

SpecNest == InitNest /\ [][Next]_vars

\* The invariants of the AST hold in a sequence of tokens and in a token, at
\* every depth.
RECURSIVE WellFormedSeq(_)
RECURSIVE WellFormedToken(_)
WellFormedSeq(tokens) == \A i \in 1..Len(tokens) : WellFormedToken(tokens[i])

WellFormedToken(token) ==
  CASE token.tokenType = TokenType.LITERAL -> TRUE
    [] token.tokenType = TokenType.BRACKET -> Len(token.value) > 0
    [] token.tokenType = TokenType.GROUP -> WellFormedSeq(token.value)
    [] token.tokenType = TokenType.OR ->
         /\ Len(token.value[1]) > 0
         /\ Len(token.value[2]) > 0
         /\ WellFormedSeq(token.value[1])
         /\ WellFormedSeq(token.value[2])
    [] token.tokenType = TokenType.REPEAT ->
         /\ token.value.min <= token.value.max
         /\ WellFormedToken(token.value.token)

\* How many Groups of an empty sequence a sequence of tokens and a token hold.
RECURSIVE EmptyGroupsSeq(_)
RECURSIVE EmptyGroupsToken(_)
EmptyGroupsSeq(tokens) ==
  IF tokens = <<>> THEN 0
  ELSE EmptyGroupsToken(Head(tokens)) + EmptyGroupsSeq(Tail(tokens))

EmptyGroupsToken(token) ==
  CASE token.tokenType = TokenType.GROUP ->
         IF token.value = <<>> THEN 1 ELSE EmptyGroupsSeq(token.value)
    [] token.tokenType = TokenType.OR ->
         EmptyGroupsSeq(token.value[1]) + EmptyGroupsSeq(token.value[2])
    [] token.tokenType = TokenType.REPEAT -> EmptyGroupsToken(token.value.token)
    [] OTHER -> 0

\* Where s, a pattern without '(' in a character class, writes "()".
EmptyGroupTexts(s) == {i \in 1..(Len(s) - 1) : s[i] = LP /\ s[i + 1] = RP}

\* C10: in the AST of a pattern that parses, at every depth, a Repeat has
\* min <= max, a Bracket is not empty and both sequences of an Or are not
\* empty; and it has as many Groups of an empty sequence as the pattern
\* writes "()".
AstInvariants ==
  ParsedOk =>
    /\ WellFormedSeq(parseContext.tokens)
    /\ EmptyGroupsSeq(parseContext.tokens) = Cardinality(EmptyGroupTexts(regex))

\* ((a|()))* has been parsed: an Or that holds the empty group, two groups
\* deep under a Repeat
AstWitness ==
  /\ ParsedOk
  /\ regex = Str(<<"(", "(", "a", "|", "(", ")", ")", ")", "*">>)
  /\ parseContext.tokens =
       <<Repeat(0, Infinity,
           Group(<<Group(<<Or(<<Literal(Ch("a"))>>, <<Group(<<>>)>>)>>)>>))>>

\* ------------------------------------------------------------------------
\* C1
\* ------------------------------------------------------------------------

\* Most pieces of text a pattern of the matching instances is put together
\* from, before it is wrapped.
MaxPieces == 3

\* The quantifiers, one of each form.
QuantifierLexemes ==
  {Str(<<"*">>), Str(<<"+">>), Str(<<"?">>), Str(<<"{", "2", "}">>),
   Str(<<"{", "1", ",", "2", "}">>), Str(<<"{", "2", ",", "}">>),
   Str(<<"{", ",", "2", "}">>), Str(<<"{", "0", "}">>)}

MatchLexemes ==
  {Str(<<"a">>), Str(<<"b">>), Str(<<"[", "a", "b", "]">>),
   Str(<<"(">>), Str(<<")">>), Str(<<"|">>)} \cup QuantifierLexemes

\* The concatenations of up to n pieces that parse.
PlainPatterns(n) ==
  {p \in Concatenations(MatchLexemes, n) : parse(p).err = ""}

\* Those of up to n pieces that do not.
RejectedPatterns(n) ==
  {p \in Concatenations(MatchLexemes, n) : parse(p).err # ""}

\* Each pattern of a set of patterns that parse as it is, in a group under
\* each quantifier, and as the operand of an alternation.
MatchPatterns(plain) ==
  plain
    \cup {<<LP>> \o p \o <<RP>> \o q : p \in plain, q \in QuantifierLexemes}
    \cup {p \o <<BAR>> \o r : p \in plain \ {<<>>},
                              r \in {Str(<<"b">>), Str(<<"a", "b">>)}}

MatchInputs == Strings(Chars({"a", "b"}), MaxInput)

\* U+1F600, two code units, as a pattern of two literals, after a literal
\* and in a class; and one code unit of it.
UnicodePatterns ==
  {Str(<<"HI", "LO">>), Str(<<"a", "HI", "LO">>), Str(<<"[", "HI", "LO", "]">>),
   Str(<<"HI">>)}

UnicodeInputs ==
  {Str(<<"HI", "LO">>), Str(<<"a", "HI", "LO">>), Str(<<"HI">>), Str(<<"LO">>),
   Str(<<"LO", "HI">>)}

InitMatch ==
  \/ InitWith(MatchPatterns(PlainPatterns(MaxPieces)), MatchInputs)
  \/ InitWith(UnicodePatterns, UnicodeInputs)
  \/ InitWith(RejectedPatterns(2), {Str(<<>>)})

SpecMatch == InitMatch /\ [][Next]_vars

\* The string w, a sequence of code units, is in the language of a sequence
\* of tokens (the concatenation of its tokens' languages), of a token, and
\* of the repetition of a token lo to hi times.
RECURSIVE InSeq(_, _)
RECURSIVE InToken(_, _)
RECURSIVE InRepeat(_, _, _, _)
InSeq(tokens, w) ==
  IF tokens = <<>> THEN w = <<>>
  ELSE \E k \in 0..Len(w) :
         /\ InToken(Head(tokens), SubSeq(w, 1, k))
         /\ InSeq(Tail(tokens), SubSeq(w, k + 1, Len(w)))

InToken(token, w) ==
  CASE token.tokenType = TokenType.LITERAL -> w = <<token.value>>
    [] token.tokenType = TokenType.BRACKET ->
         Len(w) = 1 /\ w[1] \in Range(token.value)
    [] token.tokenType = TokenType.GROUP -> InSeq(token.value, w)
    [] token.tokenType = TokenType.OR ->
         InSeq(token.value[1], w) \/ InSeq(token.value[2], w)
    [] token.tokenType = TokenType.REPEAT ->
         InRepeat(token.value.token, token.value.min, token.value.max, w)

\* w is k strings of the token's language one after the other, lo <= k <= hi:
\* no string when lo = 0; or a first string that is not empty and the rest;
\* or, to reach lo, the empty string and the rest.
InRepeat(token, lo, hi, w) ==
  \/ lo = 0 /\ w = <<>>
  \/ /\ hi > 0
     /\ \E k \in 1..Len(w) :
          /\ InToken(token, SubSeq(w, 1, k))
          /\ InRepeat(token, IF lo > 0 THEN lo - 1 ELSE 0,
                      IF hi = Infinity THEN hi ELSE hi - 1,
                      SubSeq(w, k + 1, Len(w)))
  \/ /\ lo > 0
     /\ InToken(token, <<>>)
     /\ InRepeat(token, lo - 1, IF hi = Infinity THEN hi ELSE hi - 1, w)

\* C1: on a pattern that parses, match returns true exactly when the whole
\* input is in the language of the pattern's AST.
MatchIsMembership ==
  (pc = "done" /\ parseContext.err = "")
    => result = InSeq(parseContext.tokens, input)

\* C1 for the inputs that hold no surrogate pair, which a for...of loop cuts
\* into their code units.
MatchIsMembershipOfUnits ==
  (pc = "done" /\ parseContext.err = "" /\ StringIterator(input) = input)
    => result = InSeq(parseContext.tokens, input)

\* match has returned false on the pattern U+1F600 and the input U+1F600
SurrogatePairWitness ==
  /\ pc = "done"
  /\ regex = Str(<<"HI", "LO">>)
  /\ input = regex
  /\ parseContext.tokens = <<Literal(Ch("HI")), Literal(Ch("LO"))>>
  /\ result = FALSE

\* ------------------------------------------------------------------------
\* C11
\* ------------------------------------------------------------------------

\* Most pieces of text a pattern of the instances about ctx.pos is put
\* together from.
MaxPos == 4

\* A literal, the delimiters of a group, the alternation operator, a
\* quantifier, a class with a range, a brace quantifier, and a '[' and a '{'
\* that nothing closes.
PosLexemes ==
  {Str(<<"a">>), Str(<<"(">>), Str(<<")">>), Str(<<"|">>), Str(<<"*">>),
   Str(<<"[", "a", "-", "c", "]">>), Str(<<"[">>),
   Str(<<"{", "1", ",", "2", "}">>), Str(<<"{">>)}

InitPos == InitWith(Concatenations(PosLexemes, MaxPos), OneInput)

SpecPos == InitPos /\ [][Next]_vars

\* The context of a call made while s is parsed with ctx.pos = p: ctx.tokens
\* is assigned only when parseExpression has returned to parse.
ContextAt(s, p) == [createParseContext(s) EXCEPT !.pos = p]

\* The stopChars of the calls: undefined at the top level, [')'] in a group.
StopSets == {{}, {RP}}

TrailingInput == "Unexpected characters at end of expression"

\* The top-level parseExpression never returns before the end of the pattern,
\* so that parse never throws the trailing-input error.
TrailingInputNeverRaised ==
  Parsed => parseContext.err # TrailingInput

\* C11: when parse returns without error ctx.pos is the length of the
\* pattern; an expression that returned with characters left over makes parse
\* throw the trailing-input error at ctx.pos; no call of parseExpression,
\* parseTerm, parseFactor or parseAtom, from any position of the pattern and
\* with either stop set, leaves ctx.pos below where it found it, whether it
\* returns or throws; and a parseFactor that returns a token leaves it at
\* least one higher.
ParseConsumesPattern ==
  Parsed =>
    /\ parseContext.err = "" => parseContext.pos = Len(regex)
    /\ LET top == parseExpression(createParseContext(regex), {})
       IN ~Threw(top) => top.ctx.pos = Len(regex)
    /\ LET e == parseExpression(createParseContext(regex), {RP})
       IN (~Threw(e) /\ e.ctx.pos < Len(regex)) =>
            /\ parseEnd(e).err = TrailingInput
            /\ parseEnd(e).errPos = e.ctx.pos
            /\ parseEnd(e).pos = e.ctx.pos
    /\ \A p \in 0..Len(regex) : \A stopChars \in StopSets :
         /\ parseExpression(ContextAt(regex, p), stopChars).ctx.pos >= p
         /\ parseTerm(ContextAt(regex, p), stopChars).ctx.pos >= p
         /\ parseAtom(ContextAt(regex, p), stopChars).ctx.pos >= p
         /\ LET f == parseFactor(ContextAt(regex, p), stopChars)
            IN /\ f.ctx.pos >= p
               /\ (~Threw(f) /\ ~IsNull(f.val)) => f.ctx.pos >= p + 1

\* ([a-c])* has been parsed to its end
ParseConsumesWitness ==
  /\ ParsedOk
  /\ regex = Str(<<"(", "[", "a", "-", "c", "]", ")", "*">>)
  /\ parseContext.pos = 8
  /\ parseContext.tokens =
       <<Repeat(0, Infinity, Group(<<Bracket(<<Ch("a"), Ch("b"), Ch("c")>>)>>))>>

\* a) has been read as an expression that stops at the ')', which leaves a
\* character over
ParseLeftOverWitness ==
  /\ Parsed
  /\ regex = Str(<<"a", ")">>)
  /\ parseExpression(createParseContext(regex), {RP}).ctx.pos = 1
  /\ parseContext.err = "Unexpected character"

\* ------------------------------------------------------------------------
\* C12
\* ------------------------------------------------------------------------

\* Longest input of the instances about alternation.
MaxAltInput == 2

\* The operands: three literals, a concatenation, a quantified literal and
\* the empty group.
AltOperands ==
  {Str(<<"a">>), Str(<<"b">>), Str(<<"c">>), Str(<<"a", "b">>),
   Str(<<"a", "*">>), Str(<<"(", ")">>)}

\* (p|q)|r, p|(q|r) and r|q|p
AltLeft(p, q, r) == <<LP>> \o p \o <<BAR>> \o q \o <<RP, BAR>> \o r
AltRight(p, q, r) == p \o <<BAR, LP>> \o q \o <<BAR>> \o r \o <<RP>>
AltFlat(p, q, r) == r \o <<BAR>> \o q \o <<BAR>> \o p

AltPatterns == {AltLeft(p, q, r) : p \in AltOperands, q \in AltOperands,
                                   r \in AltOperands}

AltInputs == Strings(Chars({"a", "b", "c"}), MaxAltInput)

\* An alternation parse rejects: its group is not closed.
AltRejected == {Str(<<"(", "a", "|", "b">>)}

InitAlt == InitWith(AltPatterns \cup AltRejected, AltInputs)

SpecAlt == InitAlt /\ [][Next]_vars

\* C12: what match returns on (p|q)|r and an input is what it returns on
\* p|(q|r) and on r|q|p and that input, although the three patterns parse to
\* three different ASTs: an Or whose left operand is the Group of an Or, an
\* Or whose right operand is the Group of an Or, and an Or whose left operand
\* is an Or.
AlternationIsAssociativeCommutative ==
  pc = "done" =>
    \A p \in AltOperands : \A q \in AltOperands : \A r \in AltOperands :
      regex = AltLeft(p, q, r) =>
        LET left == parseContext.tokens
            right == parse(AltRight(p, q, r))
            flat == parse(AltFlat(p, q, r))
        IN /\ result = match(AltRight(p, q, r), input)
           /\ result = match(AltFlat(p, q, r), input)
           /\ parseContext.err = ""
           /\ right.err = ""
           /\ flat.err = ""
           /\ left[1].tokenType = TokenType.OR
           /\ left[1].value[1][1].tokenType = TokenType.GROUP
           /\ left[1].value[1][1].value[1].tokenType = TokenType.OR
           /\ left[1].value[2] = parse(r).tokens
           /\ right.tokens[1].tokenType = TokenType.OR
           /\ right.tokens[1].value[1] = parse(p).tokens
           /\ right.tokens[1].value[2][1].tokenType = TokenType.GROUP
           /\ right.tokens[1].value[2][1].value[1].tokenType = TokenType.OR
           /\ flat.tokens[1].tokenType = TokenType.OR
           /\ flat.tokens[1].value[1][1].tokenType = TokenType.OR
           /\ flat.tokens[1].value[1][1].value[1] = parse(r).tokens
           /\ flat.tokens[1].value[2] = parse(p).tokens

\* match has returned true on (a|b)|c and the input c, the operand that
\* stands last in (a|b)|c and a|(b|c) and first in c|b|a
AlternationWitness ==
  /\ pc = "done"
  /\ regex = AltLeft(Str(<<"a">>), Str(<<"b">>), Str(<<"c">>))
  /\ input = Str(<<"c">>)
  /\ result = TRUE
  /\ parseContext.tokens =
       <<Or(<<Group(<<Or(<<Literal(Ch("a"))>>, <<Literal(Ch("b"))>>)>>)>>,
            <<Literal(Ch("c"))>>)>>
  /\ parse(AltFlat(Str(<<"a">>), Str(<<"b">>), Str(<<"c">>))).tokens =
       <<Or(<<Or(<<Literal(Ch("c"))>>, <<Literal(Ch("b"))>>)>>,
            <<Literal(Ch("a"))>>)>>

\* ------------------------------------------------------------------------
\* C13
\* ------------------------------------------------------------------------

\* Most further calls of simulateNfaIterative on one NFA.
MaxCalls == 2

\* Longest input of the instances that simulate again.
MaxAgainInput == 2

\* A literal, a concatenation, the quantifiers, an alternation under a
\* quantifier, epsilon cycles, a class and the empty group.
AgainPatterns ==
  {Str(<<"a">>), Str(<<"a", "b">>), Str(<<"a", "*">>),
   Str(<<"(", "a", "|", "b", ")", "+">>), Str(<<"(", "a", "*", ")", "*">>),
   Str(<<"a", "{", "1", ",", "2", "}">>), Str(<<"a", "{", "2", ",", "}">>),
   Str(<<"[", "a", "b", "]", "?">>), Str(<<"(", ")", "*">>),
   Str(<<"(", ")">>), Str(<<"a", "|">>)}

AgainInputs == Strings(Chars({"a", "b"}), MaxAgainInput)

\* simulateNfaIterative has returned and is called again with the start state
\* buildNfa returned and any input: its locals are new.
SimulateAgain ==
  /\ pc = "done"
  /\ parseContext.err = ""
  /\ calls < MaxCalls
  /\ input' \in AgainInputs
  /\ pc' = "simulate"
  /\ currentStates' = <<>>
  /\ consumed' = 0
  /\ result' = FALSE
  /\ calls' = calls + 1
  /\ UNCHANGED <<regex, parseContext, heap, nfaStartState>>
  /\ UNCHANGED <<states, closure, stack, pushes>>

NextAgain ==
  \/ MatchParse
  \/ MatchCatch
  \/ MatchBuildNfa
  \/ SimulateStart
  \/ SimulateStep
  \/ SimulateReturn
  \/ SimulateAgain

InitAgain == InitWith(AgainPatterns, AgainInputs)

SpecAgain == InitAgain /\ [][NextAgain]_vars

\* C13: once buildNfa has returned, whatever simulations have run since, the
\* states are the states buildNfa produced, with the same flags, transitions
\* and epsilonTransitions, and the start state is the one it returned; so
\* what a simulation has returned on an input is what simulateNfaIterative
\* returns on the NFA as it is now and that input.
SimulationLeavesNfaUnchanged ==
  (pc \in {"simulate", "loop", "done"} /\ parseContext.err = "") =>
    /\ heap = buildNfa(parseContext).heap
    /\ nfaStartState = buildNfa(parseContext).nfaStart
    /\ pc = "done" =>
         /\ result = simulateNfaIterative(heap, nfaStartState, input)
         /\ result = match(regex, input)

\* The simulations never write to the NFA, step by step.
SimulationFrame ==
  [][(pc \in {"simulate", "loop", "done"})
       => (heap' = heap /\ nfaStartState' = nfaStartState)]_vars

\* A third simulation on the NFA of (a*)* has returned true on the input aa
SimulateAgainWitness ==
  /\ pc = "done"
  /\ calls = 2
  /\ regex = Str(<<"(", "a", "*", ")", "*">>)
  /\ input = Str(<<"a", "a">>)
  /\ result = TRUE
  /\ heap = buildNfa(parse(regex)).heap

\* ------------------------------------------------------------------------
\* C14
\* ------------------------------------------------------------------------

\* Longest string of the instances about code units.
MaxUnits == 3

\* Two characters of one code unit and the two code units of U+1F600; a high
\* or a low surrogate that stands alone is a string of one code unit too.
UnitStrings == Strings(Chars({"a", "b", "HI", "LO"}), MaxUnits)

\* The strings as patterns of literals, and two patterns that hold a
\* metacharacter.
UnitPatterns == UnitStrings \cup {Str(<<"a", "*">>), Str(<<"(">>)}

InitUnits == InitWith(UnitPatterns, UnitStrings)

SpecUnits == InitUnits /\ [][Next]_vars

\* The characters parseAtom does not take for a literal.
Metacharacters == Chars({"(", ")", "[", "|", "*", "+", "?", "{"})

\* s is made only of literals that are not metacharacters
IsLiteralPattern(s) == \A i \in 1..Len(s) : s[i] \notin Metacharacters

\* How many code units the elements e[1..n] of a for...of loop hold.
RECURSIVE UnitsOf(_, _)
UnitsOf(e, n) ==
  IF n = 0 THEN 0
  ELSE UnitsOf(e, n - 1) + (IF e[n] >= 65536 THEN 2 ELSE 1)

\* C14 as stated: the simulator has consumed one code unit of the input per
\* step of its loop, as the parser reads one code unit of the pattern per
\* literal; and match(p, p) is true for every pattern p of literals that are
\* not metacharacters.
SimulatorStepsByCodeUnit ==
  /\ (pc \in {"loop", "done"} /\ parseContext.err = "")
       => UnitsOf(StringIterator(input), consumed) = consumed
  /\ (pc = "done" /\ IsLiteralPattern(regex) /\ input = regex)
       => /\ Len(parseContext.tokens) = Len(regex)
          /\ result = TRUE

\* C14 for the inputs in which no low surrogate follows a high surrogate.
SimulatorStepsByCodeUnitWithoutPairs ==
  StringIterator(input) = input => SimulatorStepsByCodeUnit

\* match has returned false on the pattern a U+1F600 and itself: the parser
\* made three literals of it and the simulator stopped at its second step, on
\* the element of two code units
CodePointStepWitness ==
  /\ pc = "done"
  /\ regex = Str(<<"a", "HI", "LO">>)
  /\ input = regex
  /\ Len(parseContext.tokens) = 3
  /\ consumed = 2
  /\ UnitsOf(StringIterator(input), consumed) = 3
  /\ result = FALSE

\* ------------------------------------------------------------------------
\* C15
\* ------------------------------------------------------------------------

\* Highest count a brace quantifier of the instances about Repeat spells.
MaxCount == 2

\* Longest input of these instances.
MaxRepeatInput == 4

\* The inner tokens: a literal, a class, a concatenation, an alternation, a
\* token that accepts the empty string among others, and the empty group.
RepeatAtoms ==
  {Str(<<"a">>), Str(<<"[", "a", "b", "]">>), Str(<<"(", "a", "b", ")">>),
   Str(<<"(", "a", "|", "b", ")">>), Str(<<"(", "a", "*", ")">>),
   Str(<<"(", ")">>)}

\* The decimal digit of a count up to 9.
DigitOf(n) == 48 + n

\* *, +, ?, {m}, {m,}, {,n} and {m,n} for every m <= n up to MaxCount.
RepeatQuantifiers ==
  {Str(<<"*">>), Str(<<"+">>), Str(<<"?">>)}
    \cup {<<Ch("{"), DigitOf(m), Ch("}")>> : m \in 0..MaxCount}
    \cup {<<Ch("{"), DigitOf(m), Ch(","), Ch("}")>> : m \in 0..MaxCount}
    \cup {<<Ch("{"), Ch(","), DigitOf(n), Ch("}")>> : n \in 0..MaxCount}
    \cup {<<Ch("{"), DigitOf(m), Ch(","), DigitOf(n), Ch("}")>> :
            m \in 0..MaxCount, n \in 0..MaxCount}

\* Every inner token under every quantifier that parses.
RepeatPatterns ==
  {p \in {at \o q : at \in RepeatAtoms, q \in RepeatQuantifiers} :
     parse(p).err = ""}
    \cup {Str(<<"a", "{", "2", ",", "1", "}">>)}

RepeatInputs == Strings(Chars({"a", "b"}), MaxRepeatInput)

InitRepeat == InitWith(RepeatPatterns, RepeatInputs)

SpecRepeat == InitRepeat /\ [][Next]_vars

\* w is k strings of the token's language one after the other.
RECURSIVE InPower(_, _, _)
InPower(token, k, w) ==
  IF k = 0 THEN w = <<>>
  ELSE \E j \in 0..Len(w) :
         /\ InToken(token, SubSeq(w, 1, j))
         /\ InPower(token, k - 1, SubSeq(w, j + 1, Len(w)))

Larger(m, n) == IF m >= n THEN m ELSE n
Smaller(m, n) == IF m <= n THEN m ELSE n

\* w is k strings of the token's language for a k from lo to hi.  More than
\* Len(w) strings hold an empty one, which can be left out down to lo, so no
\* k above both lo and Len(w) has to be tried.
InCounted(token, lo, hi, w) ==
  \E k \in lo..Smaller(hi, Larger(lo, Len(w))) : InPower(token, k, w)

\* k copies of the character a
Copies(k) == [i \in 1..k |-> Ch("a")]

\* C15: on a pattern that is one quantified token, which parses to
\* Repeat(min, max, A), match returns true exactly on the concatenations of k
\* strings that A accepts with min <= k <= max: for the literal a, Repeat(0,
\* 0, a) accepts the empty string only, a{m} m copies only, a{,n} and a{m,n}
\* from m to n copies, and a{m,} every count from m upward.
RepeatAcceptsCounted ==
  (pc = "done" /\ parseContext.err = "") =>
    LET token == parseContext.tokens[1]
    IN /\ Len(parseContext.tokens) = 1
       /\ token.tokenType = TokenType.REPEAT
       /\ token.value.min <= token.value.max
       /\ result = InCounted(token.value.token, token.value.min,
                             token.value.max, input)
       /\ (token.value.token.tokenType = TokenType.LITERAL) =>
            (result = \E k \in token.value.min..Smaller(token.value.max,
                                                        MaxRepeatInput) :
                        input = Copies(k))

\* match has returned true on a{2,} and aaaa, and the NFA has the two
\* required copies and the looping copy of the literal
RepeatWitness ==
  /\ pc = "done"
  /\ regex = Str(<<"a", "{", "2", ",", "}">>)
  /\ parseContext.tokens = <<Repeat(2, Infinity, Literal(Ch("a")))>>
  /\ input = Copies(4)
  /\ result = TRUE
  /\ Len(heap) = 8

\* match has returned false on a{1,2} and aaa, three copies
RepeatBoundWitness ==
  /\ pc = "done"
  /\ regex = Str(<<"a", "{", "1", ",", "2", "}">>)
  /\ input = Copies(3)
  /\ result = FALSE

\* ------------------------------------------------------------------------
\* C16
\* ------------------------------------------------------------------------

\* Most pieces of text a pattern of the instances about the compiler is put
\* together from, before it is wrapped.
MaxBuild == 2

\* Repeats of every kind inside Repeats and next to other tokens.
BuildExtras ==
  {Str(<<"(", "(", "a", "b", ")", "{", "2", "}", ")", "{", "2", ",", "}">>),
   Str(<<"(", "(", "a", "|", "b", ")", "{", "1", ",", "2", "}", ")", "{", "2", "}", "b">>),
   Str(<<"b", "(", "a", "*", ")", "{", "2", ",", "3", "}", "(", ")", "+">>),
   Str(<<"(", "a", "{", "2", "}", ")", "{", "0", "}", "a", "{", "3", "}">>)}

InitBuild ==
  \/ InitWith(MatchPatterns(PlainPatterns(MaxBuild)) \cup BuildExtras, OneInput)
  \/ InitWith(RejectedPatterns(1), OneInput)

SpecBuild == InitBuild /\ [][Next]_vars

\* buildNfa has just returned
Built == pc = "simulate" /\ calls = 0

\* How many states tokenToNfa creates for a token and tokensToNfa for a
\* sequence of tokens, read off the AST: two for each token, one more for
\* each optional copy of a bounded Repeat, and those of each copy.
RECURSIVE StatesOfToken(_)
RECURSIVE StatesOfTokens(_)
StatesOfSeq(tokens) == IF tokens = <<>> THEN 2 ELSE StatesOfTokens(tokens)

StatesOfTokens(tokens) ==
  IF tokens = <<>> THEN 0
  ELSE StatesOfToken(Head(tokens)) + StatesOfTokens(Tail(tokens))

\* How many copies of the inner token a Repeat has, and how many states
\* besides those of the copies.
RepeatCopies(lo, hi) ==
  IF lo = 0 /\ hi = 0 THEN 0
  ELSE IF hi = Infinity THEN (IF lo <= 1 THEN 1 ELSE lo + 1)
  ELSE hi

RepeatOwnStates(lo, hi) ==
  IF hi = Infinity \/ (lo = 0 /\ hi = 0) \/ (lo = 0 /\ hi = 1) THEN 2
  ELSE 2 + (hi - lo)

StatesOfToken(token) ==
  CASE token.tokenType = TokenType.GROUP ->
         IF token.value = <<>> THEN 2 ELSE 2 + StatesOfSeq(token.value)
    [] token.tokenType = TokenType.OR ->
         2 + StatesOfSeq(token.value[1]) + StatesOfSeq(token.value[2])
    [] token.tokenType = TokenType.REPEAT ->
         RepeatOwnStates(token.value.min, token.value.max)
           + RepeatCopies(token.value.min, token.value.max)
               * StatesOfToken(token.value.token)
    [] OTHER -> 2

\* Where the k-th copy (k from 0) of the inner token of a Repeat whose own
\* first state is base + 1 starts: after the Repeat's two states and the
\* copies before it, each optional copy of a bounded Repeat being followed by
\* one state.
CopyBase(base, lo, hi, size, k) ==
  IF hi = Infinity \/ k <= lo \/ (lo = 0 /\ hi = 1)
  THEN base + 2 + k * size
  ELSE base + 2 + k * size + (k - lo)

\* The copy is the looping one of an unbounded Repeat: the last.
IsLoopingCopy(lo, hi, k) == hi = Infinity /\ k = RepeatCopies(lo, hi) - 1

\* The fragments of a token and of the tokens inside it, as the states
\* base + 1 .. base + StatesOfToken(token) in the order of their creation:
\* lo..hi the states of a fragment, lo its entry and lo + 1 its exit, copyOf
\* the entry of the Repeat it is a copy of (0 when of none), looping whether
\* it is the looping copy.
RECURSIVE FragmentsOfToken(_, _, _, _)
RECURSIVE FragmentsOfTokens(_, _)
FragmentsOfSeq(tokens, base) ==
  IF tokens = <<>>
  THEN {[lo |-> base + 1, hi |-> base + 2, copyOf |-> 0, looping |-> FALSE]}
  ELSE FragmentsOfTokens(tokens, base)

FragmentsOfTokens(tokens, base) ==
  IF tokens = <<>> THEN {}
  ELSE FragmentsOfToken(Head(tokens), base, 0, FALSE)
         \cup FragmentsOfTokens(Tail(tokens), base + StatesOfToken(Head(tokens)))

FragmentsOfToken(token, base, copyOf, looping) ==
  {[lo |-> base + 1, hi |-> base + StatesOfToken(token),
    copyOf |-> copyOf, looping |-> looping]}
    \cup
  CASE token.tokenType = TokenType.GROUP ->
         IF token.value = <<>> THEN {} ELSE FragmentsOfSeq(token.value, base + 2)
    [] token.tokenType = TokenType.OR ->
         FragmentsOfSeq(token.value[1], base + 2)
           \cup FragmentsOfSeq(token.value[2],
                               base + 2 + StatesOfSeq(token.value[1]))
    [] token.tokenType = TokenType.REPEAT ->
         UNION {FragmentsOfToken(token.value.token,
                  CopyBase(base, token.value.min, token.value.max,
                           StatesOfToken(token.value.token), k),
                  base + 1,
                  IsLoopingCopy(token.value.min, token.value.max, k)) :
                k \in 0..(RepeatCopies(token.value.min, token.value.max) - 1)}
    [] OTHER -> {}

\* The states a transition or an epsilon transition of state i leads to.
Successors(h, i) ==
  Range(h[i].epsilonTransitions)
    \cup UNION {Range(h[i].transitions[c]) : c \in DOMAIN h[i].transitions}

\* The edges of the graph.
Edges(h) == UNION {{<<i, j>> : j \in Successors(h, i)} : i \in 1..Len(h)}

Inside(f, i) == f.lo <= i /\ i <= f.hi

\* No edge leaves the fragment but from its exit and none enters it but at
\* its entry.
SelfContained(f, edges) ==
  \A e \in edges :
    /\ (Inside(f, e[1]) /\ ~Inside(f, e[2])) => e[1] = f.lo + 1
    /\ (~Inside(f, e[1]) /\ Inside(f, e[2])) => e[2] = f.lo

Disjoint(f, g) == f.hi < g.lo \/ g.hi < f.lo
Within(f, g) == g.lo < f.lo /\ f.hi <= g.hi

\* The graph of the nodes and the edges between them has no cycle: taking
\* away the nodes that no edge enters, again and again, takes all away.
RECURSIVE Acyclic(_, _)
Acyclic(nodes, edges) ==
  LET entered == {e[2] : e \in {d \in edges : d[1] \in nodes /\ d[2] \in nodes}}
  IN IF nodes = {} THEN TRUE
     ELSE IF nodes \subseteq entered THEN FALSE
     ELSE Acyclic(nodes \cap entered, edges)

\* The edges from the exit to the entry of the looping copies.
LoopEdges(fragments) == {<<f.lo + 1, f.lo>> : f \in {g \in fragments : g.looping}}

\* C16: the NFA buildNfa returns has the states of one fragment per token
\* and per copy of a repeated token, each created for it: as many states as
\* the AST has tokens and copies to build; each fragment self-contained; two
\* fragments apart or one inside the other, with different entries, and two
\* copies of one Repeat apart; and without the loop edges of the looping
\* copies of the unbounded Repeats, which are edges of the graph, no path
\* leads back to a state it has left.
CopiesAreFresh ==
  Built =>
    LET fragments == FragmentsOfSeq(parseContext.tokens, 0)
        edges == Edges(heap)
    IN /\ Len(heap) = StatesOfSeq(parseContext.tokens)
       /\ \A f \in fragments : SelfContained(f, edges)
       /\ \A f \in fragments : \A g \in fragments :
            f # g => /\ Disjoint(f, g) \/ Within(f, g) \/ Within(g, f)
                     /\ f.lo # g.lo
                     /\ (f.copyOf # 0 /\ f.copyOf = g.copyOf) => Disjoint(f, g)
       /\ LoopEdges(fragments) \subseteq edges
       /\ Acyclic(1..Len(heap), edges \ LoopEdges(fragments))

\* The NFA of ((ab){2}){2,} has been built: three copies of the group, the
\* last the looping one, each with two copies of (ab)
CopiesWitness ==
  /\ Built
  /\ regex = Str(<<"(", "(", "a", "b", ")", "{", "2", "}", ")", "{", "2", ",", "}">>)
  /\ Len(heap) = 50
  /\ Cardinality({f \in FragmentsOfSeq(parseContext.tokens, 0) : f.copyOf = 1}) = 3
  /\ LoopEdges(FragmentsOfSeq(parseContext.tokens, 0)) = {<<36, 35>>}
  /\ ~Acyclic(1..Len(heap), Edges(heap))

\* ------------------------------------------------------------------------
\* C17
\* ------------------------------------------------------------------------

\* The tokens of a sequence of tokens and of a token, at every depth, and the
\* sequences of tokens tokensToNfa is called with, one after the other.
RECURSIVE TokensInSeq(_)
RECURSIVE TokensIn(_)
RECURSIVE SeqsInSeq(_)
RECURSIVE SeqsInTokens(_)
RECURSIVE SeqsIn(_)
TokensInSeq(tokens) ==
  IF tokens = <<>> THEN <<>>
  ELSE TokensIn(Head(tokens)) \o TokensInSeq(Tail(tokens))

TokensIn(token) ==
  <<token>> \o
  CASE token.tokenType = TokenType.GROUP -> TokensInSeq(token.value)
    [] token.tokenType = TokenType.OR ->
         TokensInSeq(token.value[1]) \o TokensInSeq(token.value[2])
    [] token.tokenType = TokenType.REPEAT -> TokensIn(token.value.token)
    [] OTHER -> <<>>

SeqsInSeq(tokens) == <<tokens>> \o SeqsInTokens(tokens)

SeqsInTokens(tokens) ==
  IF tokens = <<>> THEN <<>>
  ELSE SeqsIn(Head(tokens)) \o SeqsInTokens(Tail(tokens))

SeqsIn(token) ==
  CASE token.tokenType = TokenType.GROUP ->
         IF token.value = <<>> THEN <<>> ELSE SeqsInSeq(token.value)
    [] token.tokenType = TokenType.OR ->
         SeqsInSeq(token.value[1]) \o SeqsInSeq(token.value[2])
    [] token.tokenType = TokenType.REPEAT -> SeqsIn(token.value.token)
    [] OTHER -> <<>>

\* The strings of one code unit.
CodeUnits == 0..65535

\* The keys of the transitions of state i are strings of one code unit, none
\* the empty string.
KeysAreCharacters(h, i) == DOMAIN h[i].transitions \subseteq CodeUnits

\* frag is as tokenToNfa or tokensToNfa returns it, called when the states
\* were those of before: its entry and its exit are two of the states
\* created since, no edge leaves the exit, no edge enters the entry, the new
\* states have both flags false and characters for keys, and the states of
\* before are as they were.
FragmentReturned(frag, before) ==
  /\ frag.start # frag.end
  /\ frag.start \in (Len(before) + 1)..Len(frag.heap)
  /\ frag.end \in (Len(before) + 1)..Len(frag.heap)
  /\ Successors(frag.heap, frag.end) = {}
  /\ \A i \in 1..Len(frag.heap) : frag.start \notin Successors(frag.heap, i)
  /\ \A i \in (Len(before) + 1)..Len(frag.heap) :
       /\ ~frag.heap[i].isStart
       /\ ~frag.heap[i].isTerminal
       /\ KeysAreCharacters(frag.heap, i)
  /\ SubSeq(frag.heap, 1, Len(before)) = before

\* C17: in the NFA buildNfa returns, the entry of the fragment of ctx.tokens
\* is the one state with isStart, the state buildNfa returns, its exit is the
\* one state with isTerminal, and no other flag is set; every key of a
\* transitions map is a character; and the fragment tokenToNfa returns for
\* each token of the AST and tokensToNfa for each of its sequences, built
\* next to the states there are, has an entry no edge enters and an exit no
\* edge leaves.
NfaEndsAndFragments ==
  Built =>
    LET outer == tokensToNfa(<<>>, parseContext.tokens)
    IN /\ FragmentReturned(outer, <<>>)
       /\ Len(heap) = Len(outer.heap)
       /\ nfaStartState = outer.start
       /\ {i \in 1..Len(heap) : heap[i].isStart} = {outer.start}
       /\ {i \in 1..Len(heap) : heap[i].isTerminal} = {outer.end}
       /\ \A i \in 1..Len(heap) : KeysAreCharacters(heap, i)
       /\ \A k \in 1..Len(TokensInSeq(parseContext.tokens)) :
            FragmentReturned(
              tokenToNfa(heap, TokensInSeq(parseContext.tokens)[k]), heap)
       /\ \A k \in 1..Len(SeqsInSeq(parseContext.tokens)) :
            FragmentReturned(
              tokensToNfa(heap, SeqsInSeq(parseContext.tokens)[k]), heap)

\* The NFA of ([ab]b)* has been built: state 1 is its start and state 2 its
\* terminal state, and the AST has four tokens and two sequences
FragmentsWitness ==
  /\ Built
  /\ regex = Str(<<"(", "[", "a", "b", "]", "b", ")", "*">>)
  /\ nfaStartState = 1
  /\ heap[1].isStart
  /\ heap[2].isTerminal
  /\ Len(heap) = 8
  /\ Len(TokensInSeq(parseContext.tokens)) = 4
  /\ Len(SeqsInSeq(parseContext.tokens)) = 2
  /\ \E i \in 1..Len(heap) : DOMAIN heap[i].transitions = {Ch("a"), Ch("b")}

\* ------------------------------------------------------------------------
\* C18
\* ------------------------------------------------------------------------

\* The simulation one iteration at a time: each iteration of the while loop
\* of epsilonClosure and each iteration of the for loop over the input is a
\* step, pc being "closure" while an epsilonClosure call is under way.

\* Longest input of the instances that step through the simulation.
MaxStepInput == 3

\* The patterns with epsilon cycles the specification names, cycles inside
\* cycles, patterns without a cycle, and a pattern that does not parse.
StepPatterns ==
  {Str(<<"(", "a", "*", ")", "*">>), Str(<<"(", ")", "*">>),
   Str(<<"(", "a", "?", ")", "+">>),
   Str(<<"(", "(", "a", "*", ")", "*", "|", "(", ")", "+", ")", "*">>),
   Str(<<"(", "a", "|", "b", ")", "*", "b">>),
   Str(<<"[", "a", "b", "]", "{", "1", ",", "2", "}">>),
   Str(<<"a", "b">>), Str(<<>>), Str(<<"(", "a">>)}

StepInputs == Strings(Chars({"a", "b"}), MaxStepInput)

\* const closure = new Set(states); const stack = [...states]
epsilonClosureCall(argument) ==
  /\ states' = argument
  /\ closure' = argument
  /\ stack' = argument
  /\ pushes' = argument

\* let currentStates = epsilonClosure(new Set([startState])): the call
EpsilonClosureOfStart ==
  /\ pc = "simulate"
  /\ epsilonClosureCall(<<nfaStartState>>)
  /\ pc' = "closure"
  /\ UNCHANGED <<regex, input, parseContext, heap, nfaStartState, currentStates,
                 consumed, result, calls>>

\* EpsilonClosurePop pushing every nextState, in the closure or not.
EpsilonClosurePopNoTest ==
  /\ pc = "closure"
  /\ Len(stack) > 0
  /\ LET nextStates == heap[stack[Len(stack)]].epsilonTransitions
     IN /\ closure' = SetOf(closure \o nextStates)
        /\ stack' = SubSeq(stack, 1, Len(stack) - 1) \o nextStates
        /\ pushes' = pushes \o nextStates
  /\ UNCHANGED <<regex, input, pc, parseContext, heap, nfaStartState,
                 currentStates, consumed, result, calls, states>>

\* One iteration of while (stack.length > 0): s = stack.pop() and the for
\* loop over s.epsilonTransitions
EpsilonClosurePop ==
  /\ pc = "closure"
  /\ Len(stack) > 0
  /\ LET v == closureVisit(closure, SubSeq(stack, 1, Len(stack) - 1),
                           heap[stack[Len(stack)]].epsilonTransitions)
     IN /\ closure' = v.closure
        /\ stack' = v.stack
        /\ pushes' = pushes \o SubSeq(v.stack, Len(stack), Len(v.stack))
  /\ UNCHANGED <<regex, input, pc, parseContext, heap, nfaStartState,
                 currentStates, consumed, result, calls, states>>

\* The stack is empty: return closure, which is assigned to currentStates
EpsilonClosureReturn ==
  /\ pc = "closure"
  /\ Len(stack) = 0
  /\ currentStates' = closure
  /\ pc' = "loop"
  /\ UNCHANGED <<regex, input, parseContext, heap, nfaStartState, consumed,
                 result, calls, states, closure, stack, pushes>>

\* One iteration of for (const element of input) up to its return false or
\* its call of epsilonClosure(nextPossibleStates)
SimulateElement ==
  /\ pc = "loop"
  /\ consumed < Len(StringIterator(input))
  /\ LET nextPossibleStates ==
           nextPossible(heap, currentStates,
                        StringIterator(input)[consumed + 1], <<>>)
     IN IF Len(nextPossibleStates) = 0
        THEN /\ result' = FALSE
             /\ pc' = "done"
             /\ UNCHANGED <<states, closure, stack, pushes>>
        ELSE /\ epsilonClosureCall(nextPossibleStates)
             /\ pc' = "closure"
             /\ UNCHANGED result
  /\ consumed' = consumed + 1
  /\ UNCHANGED <<regex, input, parseContext, heap, nfaStartState, currentStates,
                 calls>>

NextSteps ==
  \/ MatchParse
  \/ MatchCatch
  \/ MatchBuildNfa
  \/ EpsilonClosureOfStart
  \/ EpsilonClosurePop
  \/ EpsilonClosureReturn
  \/ SimulateElement
  \/ SimulateReturn

InitSteps == InitWith(StepPatterns, StepInputs)

\* The steps of simulateNfaIterative.
NextSimulate ==
  \/ EpsilonClosureOfStart
  \/ EpsilonClosurePop
  \/ EpsilonClosureReturn
  \/ SimulateElement
  \/ SimulateReturn

\* simulateNfaIterative is synchronous code with nothing to wait for: once
\* called it runs on, a step of it that can be taken is taken.
SpecSteps == InitSteps /\ [][NextSteps]_vars /\ WF_vars(NextSimulate)

\* The smallest set that holds S and, with a state, the states its epsilon
\* transitions lead to.
RECURSIVE LeastClosed(_, _)
LeastClosed(h, S) ==
  LET T == S \cup UNION {Range(h[i].epsilonTransitions) : i \in S}
  IN IF T = S THEN S ELSE LeastClosed(h, T)

NoDuplicates(s) == Cardinality(Range(s)) = Len(s)

\* While an epsilonClosure call is under way and when it has returned: no
\* state was pushed twice, the closure holds the argument, the stack and
\* nothing outside the smallest epsilon-closed superset of the argument, and
\* all of it once the stack is empty.
ClosureIsLeast ==
  pc \in {"closure", "loop"} =>
    /\ NoDuplicates(pushes)
    /\ Range(pushes) = Range(closure)
    /\ Range(states) \subseteq Range(closure)
    /\ Range(stack) \subseteq Range(closure)
    /\ Range(closure) \subseteq LeastClosed(heap, Range(states))
    /\ Len(stack) = 0 => Range(closure) = LeastClosed(heap, Range(states))
    /\ pc = "loop" => currentStates = closure /\ Len(stack) = 0

\* The loop has taken at most one step per element of the input, which are
\* at most its code units, and match has returned a boolean: false at the
\* step that found no next state, or, after the last element, whether a
\* current state is terminal.
StepsAreBounded ==
  /\ consumed <= Len(StringIterator(input))
  /\ Len(StringIterator(input)) <= Len(input)
  /\ (pc = "done" /\ parseContext.err = "") =>
       /\ result \in BOOLEAN
       /\ \/ /\ consumed >= 1
             /\ nextPossible(heap, currentStates,
                             StringIterator(input)[consumed], <<>>) = <<>>
             /\ result = FALSE
          \/ /\ consumed = Len(StringIterator(input))
             /\ result = anyTerminal(heap, currentStates)

\* The step on an element that leads to no next state returns false.
StopsWhenNoNextState ==
  [][(/\ pc = "loop"
      /\ consumed < Len(StringIterator(input))
      /\ nextPossible(heap, currentStates,
                      StringIterator(input)[consumed + 1], <<>>) = <<>>)
       => (pc' = "done" /\ result' = FALSE /\ consumed' = consumed + 1)]_vars

\* C18: on every NFA, also one with epsilon cycles, and every input, a call
\* of simulateNfaIterative returns: every epsilonClosure call pushes a state at most
\* once and returns the smallest epsilon-closed superset of its argument, and
\* the loop takes at most one step per element of the input and returns false
\* at the first step that finds no next state.
SimulationTerminates ==
  /\ []ClosureIsLeast
  /\ []StepsAreBounded
  /\ StopsWhenNoNextState
  /\ (pc = "simulate") ~> (pc = "done")

\* The simulation of (a*)* on aab has returned false at its third step,
\* after three epsilonClosure calls in the cycles of the NFA
TerminationWitness ==
  /\ pc = "done"
  /\ regex = Str(<<"(", "a", "*", ")", "*">>)
  /\ input = Str(<<"a", "a", "b">>)
  /\ consumed = 3
  /\ result = FALSE
  /\ Len(pushes) > 1
  /\ ~Acyclic(1..Len(heap), Edges(heap))

====
